---- MODULE Spec2Model ----
(***************************************************************************)
(* Lazarus Protocol: the on-chain State Ledger (LazarusSource.sol) as a    *)
(* state machine.  One action per external function; a call that reverts   *)
(* is not a step (the EVM rolls the whole transaction back), so every      *)
(* revert of the code is a conjunct of the action's guard, collected in    *)
(* the <function>Revert operators, which return the error the code         *)
(* raises, in the code's order, or "none".                                 *)
(***************************************************************************)
EXTENDS Integers, Sequences, FiniteSets, TLC

VARIABLES
    now,                \* block.timestamp
    owner,              \* Ownable.owner()
    watchtower,         \* address public watchtower
    lifiDiamond,        \* address public lifiDiamond
    beneficiaries,      \* mapping(address => address)
    lastHeartbeat,      \* mapping(address => uint256)
    inactivityPeriods,  \* mapping(address => uint256)
    isDead,             \* mapping(address => bool)
    isRegistered,       \* mapping(address => bool)
    userDeposits,       \* mapping(address => mapping(address => uint256))
    erc20Balance,       \* IERC20(token).balanceOf(holder)
    erc20Allowance,     \* IERC20(token).allowance(owner, spender)
    balances,           \* LazarusVault: mapping(address => uint256) balances
    vaultOwner,         \* LazarusVault: Ownable.owner()
    authorizedDepositors, \* LazarusVault: mapping(address => bool)
    totalTrackedBalance,  \* LazarusVault: uint256 totalTrackedBalance
    clock,              \* Heartbeat Relay: Date.now(), in milliseconds
    store,              \* Heartbeat Relay: the heartbeats table, by user_address
    lastRequest,        \* Heartbeat Relay: body of the last POST /heartbeat
    response,           \* Heartbeat Relay: the response to it
    inFlight,           \* Heartbeat Relay: POST /heartbeat handlers at an await
    passes,             \* Liquidation Executor: runLiquidationCheck calls at an await
    processEnv,         \* Liquidation Executor: process.env
    nodeProcess,        \* the watchtower process: its exit and its database handle
    lastCall            \* the call that produced this state (history)

ledgerVars == <<owner, watchtower, lifiDiamond, beneficiaries, lastHeartbeat,
                inactivityPeriods, isDead, isRegistered, userDeposits>>
tokenVars == <<erc20Balance, erc20Allowance>>
vaultVars == <<vaultOwner, balances, authorizedDepositors, totalTrackedBalance>>
\* what is not the State Ledger's
relayVars == <<clock, store, lastRequest, response, inFlight>>
\* what is not the Vault's, next to the ledger and the tokens
scanVars == <<passes, processEnv, nodeProcess>>
offVaultVars == <<relayVars, scanVars>>
offLedgerVars == <<vaultVars, relayVars, scanVars>>
vars == <<now, ledgerVars, tokenVars, lastCall, offLedgerVars>>

(***************************************************************************)
(* Bounds of the model.                                                    *)
(***************************************************************************)
MaxTime == 63
\* the largest total supply of a token that mint is let to reach
MaxSupply == 150
MintAmount == 50

(***************************************************************************)
(* Program constants.                                                      *)
(***************************************************************************)
MIN_INACTIVITY_PERIOD == 30
DEAD_MAN_TIMEOUT == 604800    \* 7 days
UINT256_MAX == 2147483647  \* stands for type(uint256).max
LIQUIDATION_FEE_BPS == 100
BPS_DENOMINATOR == 10000
MIN_VALIDATED_LENGTH == 68
SEARCH_WINDOW == 200
SELECTOR_LENGTH == 4
ADDRESS_LENGTH == 20

(***************************************************************************)
(* Addresses.  An address is named by a small number a and stands for the  *)
(* 160-bit address whose 20 bytes are all equal to a; 0 is address(0).     *)
(***************************************************************************)
ADDR == [zero |-> 0, user |-> 1, randomUser |-> 2, beneficiary |-> 3,
         watchtower |-> 4, newWatchtower |-> 5, mockLiFi |-> 6, lifiDiamond |-> 7,
         owner |-> 8, lazarusSource |-> 9, weth |-> 10, usdc |-> 11,
         lazarusVault |-> 12, depositor |-> 13, this |-> 14]

Users == {ADDR.user, ADDR.randomUser}
Tokens == {ADDR.weth, ADDR.usdc}
Watchtowers == {ADDR.watchtower, ADDR.newWatchtower}
\* the route targets: MockLiFi of the tests, and the deployed LI.FI Diamond,
\* a contract outside the repository
Diamonds == {ADDR.mockLiFi, ADDR.lifiDiamond}
Callers == Users \cup Watchtowers \cup {ADDR.owner}
Holders == Users \cup Watchtowers \cup Diamonds \cup {ADDR.lazarusSource, ADDR.owner}
              \cup {ADDR.beneficiary, ADDR.lazarusVault, ADDR.depositor, ADDR.this}

BeneficiaryInputs == {ADDR.zero, ADDR.randomUser, ADDR.beneficiary}
PeriodInputs == {29, 30, 31}
TokenInputs == {ADDR.zero, ADDR.weth}
AmountInputs == {0, 100}
TimeSteps == {31}

Min(a, b) == IF a < b THEN a ELSE b

(***************************************************************************)
(* Route payloads (bytes calldata _swapData) are sequences of bytes.       *)
(***************************************************************************)
AddrBytes(a) == [j \in 1..ADDRESS_LENGTH |-> a]

Zeros(n) == [j \in 1..n |-> 0]

\* token.slice(2).padStart(64, '0'): an address right-aligned in a 32-byte word
Word32OfAddress(a) == Zeros(32 - ADDRESS_LENGTH) \o AddrBytes(a)

\* n.toString(16).padStart(64, '0'): big-endian, for n < 2^32
Word32OfUint(n) ==
    Zeros(28) \o << (n \div 16777216) % 256, (n \div 65536) % 256,
                    (n \div 256) % 256, n % 256 >>

\* '0x50384546', the selector of MockLiFi.mockBridge
mockSelector == << 80, 56, 69, 70 >>

buildMockSwapData(token, amount, beneficiary, destinationChainId) ==
    mockSelector \o Word32OfAddress(token) \o Word32OfUint(amount)
                 \o Word32OfAddress(beneficiary) \o Word32OfUint(destinationChainId)

(***************************************************************************)
(* The Calldata Validator, inlined in liquidate.  Offsets i are 0-based as *)
(* in the code; a sequence's first byte is at index 1.                     *)
(***************************************************************************)
extractedAt(swapData, i) == [j \in 1..ADDRESS_LENGTH |-> swapData[i + j]]

\* a search that misses the selector and the window: every offset counts
beneficiaryFoundAnywhere(swapData, beneficiary) ==
    \E i \in 0 .. (Len(swapData) - ADDRESS_LENGTH) :
        extractedAt(swapData, i) = AddrBytes(beneficiary)

beneficiaryFound(swapData, beneficiary) ==
    LET searchLen == IF Len(swapData) > SEARCH_WINDOW THEN SEARCH_WINDOW
                     ELSE Len(swapData)
    IN  \E i \in SELECTOR_LENGTH .. (searchLen - ADDRESS_LENGTH) :
            extractedAt(swapData, i) = AddrBytes(beneficiary)

\* TRUE when liquidate reverts with InvalidBeneficiary for this payload
swapDataRejected(swapData, beneficiary) ==
    /\ Len(swapData) >= MIN_VALIDATED_LENGTH
    /\ ~beneficiaryFound(swapData, beneficiary)

(***************************************************************************)
(* The payloads the model submits to liquidate: the empty payload of the   *)
(* tests, a payload shorter than 68 bytes, and mockBridge payloads naming  *)
(* a registered beneficiary or an unrelated receiver.                     *)
(***************************************************************************)
emptySwapData == << >>

shortSwapData == mockSelector \o Word32OfAddress(ADDR.newWatchtower)

SwapDataInputs ==
    {emptySwapData, shortSwapData}
    \cup { buildMockSwapData(ADDR.weth, 99, r, 42161) :
             r \in {ADDR.beneficiary, ADDR.newWatchtower} }

\* bytes4(keccak256("getBalance(address)")), MockLiFi's view
getBalanceSelector == << 248, 178, 203, 79 >>

\* calldata of getBalance followed by the beneficiary's word, asking for the
\* balance of a token and of an address that is no token contract
BalancePayloads ==
    { getBalanceSelector \o Word32OfAddress(a) \o Word32OfAddress(ADDR.beneficiary) :
         a \in {ADDR.weth, ADDR.beneficiary} }

\* the validator's verdict on every submitted payload, computed once
swapDataVerdict ==
    [d \in SwapDataInputs \cup BalancePayloads |->
        [b \in BeneficiaryInputs |-> swapDataRejected(d, b)]]

(***************************************************************************)
(* ERC-20 (OpenZeppelin ERC20, as MockERC20 of the tests).                 *)
(***************************************************************************)
AllowancePairs ==
    (Users \X {ADDR.lazarusSource}) \cup ({ADDR.lazarusSource} \X Diamonds)
       \cup {<<ADDR.this, ADDR.lazarusVault>>}

balanceOf(token, holder) == erc20Balance[token][holder]

allowanceOf(token, tokenOwner, spender) == erc20Allowance[token][<<tokenOwner, spender>>]

\* balances after moving amount of token from one holder to another
moved(tokenBalances, token, from, to, amount) ==
    [tokenBalances EXCEPT ![token][from] = @ - amount, ![token][to] = @ + amount]

\* route: for a call of liquidate, what the route target did with the
\* ledger's call
Call(op, sender, user, token, amount, addr, data) ==
    [op |-> op, sender |-> sender, user |-> user, token |-> token,
     amount |-> amount, addr |-> addr, data |-> data, route |-> "none"]

\* ERC20.totalSupply()
RECURSIVE sumOfHoldings(_, _)
sumOfHoldings(tokenBalance, S) ==
    IF S = {} THEN 0
    ELSE LET h == CHOOSE x \in S : TRUE
         IN  tokenBalance[h] + sumOfHoldings(tokenBalance, S \ {h})

totalSupply(token) == sumOfHoldings(erc20Balance[token], Holders)

\* MockERC20.mint(to, amount), open to every caller
mint(token, to, amount) ==
    /\ erc20Balance' = [erc20Balance EXCEPT ![token][to] = @ + amount]
    /\ lastCall' = Call("mint", ADDR.this, ADDR.zero, token, amount, to, << >>)
    /\ UNCHANGED <<now, ledgerVars, erc20Allowance>>
    /\ UNCHANGED offLedgerVars

\* LazarusVault as constructed: nothing credited, nobody authorized
\* An address has two spellings as a string: lowercase hex, written as the
\* address itself, and mixed-case (checksummed) hex, written as its negative.
checksumSpelling(address) == 0 - address
toLowerCase(userAddress) == IF userAddress < 0 THEN 0 - userAddress ELSE userAddress
Spellings == Users \cup {checksumSpelling(u) : u \in Users}

\* the relay's clock at start, in milliseconds
RelayEpoch == 1000000
\* no row in the heartbeats table
NoRecord == [userAddress |-> ADDR.zero]
NoRequest == [complete |-> FALSE]
\* handlers that can be at an await together
Slots == {1, 2}
Idle == [pc |-> "idle"]

\* runLiquidationCheck calls that can be at an await together
Passes == {1, 2}
NotRunning == [pc |-> "idle", results |-> << >>]
\* the builds of LazarusSource in the repository that the configured
\* address can hold: the one with a period per user, and the one before it,
\* with the one DEAD_MAN_TIMEOUT
PeriodLedger == "LazarusSource with inactivityPeriods"
TimeoutLedger == "LazarusSource with DEAD_MAN_TIMEOUT"
Production ==
    [NODE_ENV |-> "production", USE_MOCK_SWAP |-> "false",
     LAZARUS_SOURCE_ADDRESS |-> PeriodLedger]
onTimeoutLedger(env) == [env EXCEPT !.LAZARUS_SOURCE_ADDRESS = TimeoutLedger]
\* the process as started: running, with the database open
Serving == [exited |-> FALSE, db |-> "open"]

\* the relay process has started: empty table, nothing received, no scan
\* running
relayStarted ==
    /\ passes = [p \in Passes |-> NotRunning]
    /\ processEnv = Production
    /\ nodeProcess = Serving
    /\ clock = RelayEpoch
    /\ store = [a \in Spellings |-> NoRecord]
    /\ lastRequest = NoRequest
    /\ response = [status |-> 0, error |-> "none"]
    /\ inFlight = [h \in Slots |-> Idle]

vaultDeployed ==
    /\ vaultOwner = ADDR.owner
    /\ balances = [b \in {ADDR.beneficiary, ADDR.randomUser} |-> 0]
    /\ authorizedDepositors = [d \in {ADDR.depositor, ADDR.randomUser} |-> FALSE]
    /\ totalTrackedBalance = 0

(***************************************************************************)
(* constructor(_watchtower, _lifiDiamond), deployed by owner, and the      *)
(* token balances minted in the tests' setUp.                              *)
(***************************************************************************)
Init ==
    /\ now = 1
    /\ owner = ADDR.owner
    /\ watchtower = ADDR.watchtower
    /\ lifiDiamond = ADDR.mockLiFi
    /\ beneficiaries = [u \in Users |-> ADDR.zero]
    /\ lastHeartbeat = [u \in Users |-> 0]
    /\ inactivityPeriods = [u \in Users |-> 0]
    /\ isDead = [u \in Users |-> FALSE]
    /\ isRegistered = [u \in Users |-> FALSE]
    /\ userDeposits = [u \in Users |-> [t \in Tokens |-> 0]]
    /\ erc20Balance =
          [t \in Tokens |-> [h \in Holders |->
              IF h = ADDR.user /\ t = ADDR.weth THEN 150 ELSE 0]]
    /\ erc20Allowance = [t \in Tokens |-> [p \in AllowancePairs |-> 0]]
    /\ lastCall = Call("constructor", ADDR.owner, ADDR.zero, ADDR.zero, 0,
                       ADDR.watchtower, << >>)
    /\ vaultDeployed
    /\ relayStarted

(***************************************************************************)
(* User functions.                                                         *)
(***************************************************************************)
\* heartbeat, stamping the second before the call
heartbeatStale(account) == [lastHeartbeat EXCEPT ![account] = now - 1]

\* lastHeartbeat[account] = block.timestamp
heartbeat(account) == [lastHeartbeat EXCEPT ![account] = now]

\* registerRevert, without the AlreadyRegistered check
registerRevertNoRegisteredCheck(sender, _beneficiary, _inactivityPeriod) ==
    IF _beneficiary = ADDR.zero THEN "InvalidBeneficiary"
    ELSE IF _beneficiary = sender THEN "InvalidBeneficiary"
    ELSE IF _inactivityPeriod < MIN_INACTIVITY_PERIOD THEN "ZeroAmount"
    ELSE "none"

registerRevert(sender, _beneficiary, _inactivityPeriod) ==
    IF _beneficiary = ADDR.zero THEN "InvalidBeneficiary"
    ELSE IF _beneficiary = sender THEN "InvalidBeneficiary"
    ELSE IF _inactivityPeriod < MIN_INACTIVITY_PERIOD THEN "ZeroAmount"
    ELSE IF isRegistered[sender] THEN "AlreadyRegistered"
    ELSE "none"

register(sender, _beneficiary, _inactivityPeriod) ==
    /\ registerRevert(sender, _beneficiary, _inactivityPeriod) = "none"
    /\ beneficiaries' = [beneficiaries EXCEPT ![sender] = _beneficiary]
    /\ inactivityPeriods' = [inactivityPeriods EXCEPT ![sender] = _inactivityPeriod]
    /\ lastHeartbeat' = heartbeat(sender)
    /\ isRegistered' = [isRegistered EXCEPT ![sender] = TRUE]
    /\ lastCall' = Call("register", sender, sender, ADDR.zero, _inactivityPeriod,
                        _beneficiary, << >>)
    /\ UNCHANGED <<now, owner, watchtower, lifiDiamond, isDead, userDeposits, tokenVars>>
    /\ UNCHANGED offLedgerVars

\* updateInactivityPeriodRevert, without the floor check
updateInactivityPeriodRevertNoFloor(sender, _newPeriod) ==
    IF ~isRegistered[sender] THEN "NotRegistered"
    ELSE IF isDead[sender] THEN "AlreadyDead"
    ELSE "none"

updateInactivityPeriodRevert(sender, _newPeriod) ==
    IF ~isRegistered[sender] THEN "NotRegistered"
    ELSE IF isDead[sender] THEN "AlreadyDead"
    ELSE IF _newPeriod < MIN_INACTIVITY_PERIOD THEN "ZeroAmount"
    ELSE "none"

\* updateInactivityPeriod, counting as a heartbeat as a deposit does
updateInactivityPeriodAsHeartbeat(sender, _newPeriod) ==
    /\ updateInactivityPeriodRevert(sender, _newPeriod) = "none"
    /\ inactivityPeriods' = [inactivityPeriods EXCEPT ![sender] = _newPeriod]
    /\ lastHeartbeat' = [lastHeartbeat EXCEPT ![sender] = now]
    /\ lastCall' = Call("updateInactivityPeriod", sender, sender, ADDR.zero,
                        _newPeriod, ADDR.zero, << >>)
    /\ UNCHANGED <<now, owner, watchtower, lifiDiamond, beneficiaries,
                   isDead, isRegistered, userDeposits, tokenVars>>
    /\ UNCHANGED offLedgerVars

updateInactivityPeriod(sender, _newPeriod) ==
    /\ updateInactivityPeriodRevert(sender, _newPeriod) = "none"
    /\ inactivityPeriods' = [inactivityPeriods EXCEPT ![sender] = _newPeriod]
    /\ lastCall' = Call("updateInactivityPeriod", sender, sender, ADDR.zero,
                        _newPeriod, ADDR.zero, << >>)
    /\ UNCHANGED <<now, owner, watchtower, lifiDiamond, beneficiaries, lastHeartbeat,
                   isDead, isRegistered, userDeposits, tokenVars>>
    /\ UNCHANGED offLedgerVars

\* updateBeneficiaryRevert, without the AlreadyDead check
updateBeneficiaryRevertNoDeadCheck(sender, _newBeneficiary) ==
    IF ~isRegistered[sender] THEN "NotRegistered"
    ELSE IF _newBeneficiary = ADDR.zero THEN "InvalidBeneficiary"
    ELSE IF _newBeneficiary = sender THEN "InvalidBeneficiary"
    ELSE "none"

updateBeneficiaryRevert(sender, _newBeneficiary) ==
    IF ~isRegistered[sender] THEN "NotRegistered"
    ELSE IF isDead[sender] THEN "AlreadyDead"
    ELSE IF _newBeneficiary = ADDR.zero THEN "InvalidBeneficiary"
    ELSE IF _newBeneficiary = sender THEN "InvalidBeneficiary"
    ELSE "none"

updateBeneficiary(sender, _newBeneficiary) ==
    /\ updateBeneficiaryRevert(sender, _newBeneficiary) = "none"
    /\ beneficiaries' = [beneficiaries EXCEPT ![sender] = _newBeneficiary]
    /\ lastCall' = Call("updateBeneficiary", sender, sender, ADDR.zero, 0,
                        _newBeneficiary, << >>)
    /\ UNCHANGED <<now, owner, watchtower, lifiDiamond, lastHeartbeat,
                   inactivityPeriods, isDead, isRegistered, userDeposits, tokenVars>>
    /\ UNCHANGED offLedgerVars

\* pingRevert, without the AlreadyDead check
pingRevertNoDeadCheck(sender) ==
    IF ~isRegistered[sender] THEN "NotRegistered"
    ELSE "none"

pingRevert(sender) ==
    IF ~isRegistered[sender] THEN "NotRegistered"
    ELSE IF isDead[sender] THEN "AlreadyDead"
    ELSE "none"

ping(sender) ==
    /\ pingRevert(sender) = "none"
    /\ lastHeartbeat' = heartbeat(sender)
    /\ lastCall' = Call("ping", sender, sender, ADDR.zero, 0, ADDR.zero, << >>)
    /\ UNCHANGED <<now, owner, watchtower, lifiDiamond, beneficiaries,
                   inactivityPeriods, isDead, isRegistered, userDeposits, tokenVars>>
    /\ UNCHANGED offLedgerVars

\* onlyWatchtower, with the sender check left out
onlyWatchtowerUnchecked(sender) == sender \in Callers

\* modifier onlyWatchtower
onlyWatchtower(sender) == sender = watchtower

pingForRevert(sender, _user) ==
    IF ~onlyWatchtower(sender) THEN "NotWatchtower"
    ELSE IF ~isRegistered[_user] THEN "NotRegistered"
    ELSE IF isDead[_user] THEN "AlreadyDead"
    ELSE "none"

pingFor(sender, _user) ==
    /\ pingForRevert(sender, _user) = "none"
    /\ lastHeartbeat' = heartbeat(_user)
    /\ lastCall' = Call("pingFor", sender, _user, ADDR.zero, 0, ADDR.zero, << >>)
    /\ UNCHANGED <<now, owner, watchtower, lifiDiamond, beneficiaries,
                   inactivityPeriods, isDead, isRegistered, userDeposits, tokenVars>>
    /\ UNCHANGED offLedgerVars

depositFundsRevert(sender, _token, _amount) ==
    IF ~isRegistered[sender] THEN "NotRegistered"
    ELSE IF isDead[sender] THEN "AlreadyDead"
    ELSE IF _token = ADDR.zero THEN "InvalidToken"
    ELSE IF _amount = 0 THEN "ZeroAmount"
    ELSE IF allowanceOf(_token, sender, ADDR.lazarusSource) < _amount
         THEN "ERC20InsufficientAllowance"
    ELSE IF balanceOf(_token, sender) < _amount THEN "ERC20InsufficientBalance"
    ELSE "none"

depositFunds(sender, _token, _amount) ==
    /\ depositFundsRevert(sender, _token, _amount) = "none"
    /\ erc20Balance' = moved(erc20Balance, _token, sender, ADDR.lazarusSource, _amount)
    /\ erc20Allowance' =
          [erc20Allowance EXCEPT ![_token][<<sender, ADDR.lazarusSource>>] = @ - _amount]
    /\ userDeposits' = [userDeposits EXCEPT ![sender][_token] = @ + _amount]
    /\ lastHeartbeat' = heartbeat(sender)
    /\ lastCall' = Call("depositFunds", sender, sender, _token, _amount, ADDR.zero, << >>)
    /\ UNCHANGED <<now, owner, watchtower, lifiDiamond, beneficiaries,
                   inactivityPeriods, isDead, isRegistered>>
    /\ UNCHANGED offLedgerVars

\* withdrawFundsRevert, without the check against the recorded deposit
withdrawFundsRevertNoDepositCheck(sender, _token, _amount) ==
    IF ~isRegistered[sender] THEN "NotRegistered"
    ELSE IF isDead[sender] THEN "AlreadyDead"
    ELSE IF _token = ADDR.zero THEN "InvalidToken"
    ELSE IF _amount = 0 THEN "ZeroAmount"
    ELSE IF balanceOf(_token, ADDR.lazarusSource) < _amount THEN "ERC20InsufficientBalance"
    ELSE "none"

\* withdrawFundsRevert, letting a dead user withdraw
withdrawFundsRevertNoDeadCheck(sender, _token, _amount) ==
    IF ~isRegistered[sender] THEN "NotRegistered"
    ELSE IF _token = ADDR.zero THEN "InvalidToken"
    ELSE IF _amount = 0 THEN "ZeroAmount"
    ELSE IF userDeposits[sender][_token] < _amount THEN "InsufficientDeposit"
    ELSE IF balanceOf(_token, ADDR.lazarusSource) < _amount THEN "ERC20InsufficientBalance"
    ELSE "none"

withdrawFundsRevert(sender, _token, _amount) ==
    IF ~isRegistered[sender] THEN "NotRegistered"
    ELSE IF isDead[sender] THEN "AlreadyDead"
    ELSE IF _token = ADDR.zero THEN "InvalidToken"
    ELSE IF _amount = 0 THEN "ZeroAmount"
    ELSE IF userDeposits[sender][_token] < _amount THEN "InsufficientDeposit"
    ELSE IF balanceOf(_token, ADDR.lazarusSource) < _amount THEN "ERC20InsufficientBalance"
    ELSE "none"

withdrawFunds(sender, _token, _amount) ==
    /\ withdrawFundsRevert(sender, _token, _amount) = "none"
    /\ userDeposits' = [userDeposits EXCEPT ![sender][_token] = @ - _amount]
    /\ erc20Balance' = moved(erc20Balance, _token, ADDR.lazarusSource, sender, _amount)
    /\ lastHeartbeat' = heartbeat(sender)
    /\ lastCall' = Call("withdrawFunds", sender, sender, _token, _amount, ADDR.zero, << >>)
    /\ UNCHANGED <<now, owner, watchtower, lifiDiamond, beneficiaries,
                   inactivityPeriods, isDead, isRegistered, erc20Allowance>>
    /\ UNCHANGED offLedgerVars

(***************************************************************************)
(* Watchtower functions.                                                   *)
(***************************************************************************)
\* lastHeartbeat[_user] + inactivityPeriods[_user] does not fit a uint256:
\* checked arithmetic reverts with Panic(0x11)
deadlineOverflows(_user) == inactivityPeriods[_user] > UINT256_MAX - lastHeartbeat[_user]

\* notDeadYet, with the deadline instant itself already past the deadline
notDeadYetStrict(_user) == now < lastHeartbeat[_user] + inactivityPeriods[_user]

\* block.timestamp <= lastHeartbeat[_user] + inactivityPeriods[_user]
notDeadYet(_user) == now <= lastHeartbeat[_user] + inactivityPeriods[_user]

\* allowanceAmountOf, taking the allowance whatever the wallet holds
allowanceAmountIgnoringBalance(_user, _token) ==
    allowanceOf(_token, _user, ADDR.lazarusSource)

\* allowance < userBalance ? allowance : userBalance
allowanceAmountOf(_user, _token) ==
    LET allowance == allowanceOf(_token, _user, ADDR.lazarusSource)
        userBalance == balanceOf(_token, _user)
    IN  IF allowance < userBalance THEN allowance ELSE userBalance

\* amountToTransferOf, taking all the ledger holds of the token for the
\* user's deposit
amountToTransferOfHolding(_user, _token) ==
    balanceOf(_token, ADDR.lazarusSource) + allowanceAmountOf(_user, _token)

\* depositedAmount + allowanceAmount
amountToTransferOf(_user, _token) ==
    userDeposits[_user][_token] + allowanceAmountOf(_user, _token)

\* watchtowerFeeOf, rounding the fee up instead of down
watchtowerFeeRoundedUp(amountToTransfer) ==
    (amountToTransfer * LIQUIDATION_FEE_BPS + BPS_DENOMINATOR - 1) \div BPS_DENOMINATOR

\* (amountToTransfer * LIQUIDATION_FEE_BPS) / BPS_DENOMINATOR
watchtowerFeeOf(amountToTransfer) ==
    (amountToTransfer * LIQUIDATION_FEE_BPS) \div BPS_DENOMINATOR

\* the ledger's token balance once safeTransferFrom has pulled the wallet part
ledgerBalanceAfterPull(_user, _token) ==
    balanceOf(_token, ADDR.lazarusSource) + allowanceAmountOf(_user, _token)

(***************************************************************************)
(* lifiDiamond.call(_swapData): what the route target does with the call.  *)
(* MockLiFi answers by its code: empty calldata goes to receive(), the     *)
(* selector of mockBridge to mockBridge, whose arguments are decoded from  *)
(* the calldata and which pulls _amount of _token from the caller, and     *)
(* the selector of getBalance to that view, and anything else to           *)
(* fallback(); receive, fallback and getBalance pull nothing.  The         *)
(* deployed LI.FI Diamond is outside the repository: its call may revert   *)
(* without return data or with an error of its own, or return after        *)
(* pulling nothing or the amount it was approved for.                      *)
(***************************************************************************)
BridgeOutcomes ==
    {"reverts", "revertsWithData", "pullsNothing", "pullsNamed", "pullsApproved"}

\* abi.decode of (address, uint256, address, uint256) after the selector
mockBridgeArgsLength == 4 * 32

\* abi.decode of an address word at offset `at`: the twelve high bytes are zero
isAddressWord(swapData, at) ==
    \A j \in 1 .. (32 - ADDRESS_LENGTH) : swapData[at + j] = 0

\* the address an address word holds; an address outside ADDR (its bytes
\* differ) has no code and stands as the zero address
addressAt(swapData, at) ==
    IF \A j \in (32 - ADDRESS_LENGTH + 1) .. 32 : swapData[at + j] = swapData[at + 32]
    THEN swapData[at + 32] ELSE ADDR.zero

\* the uint256 a word holds; a value of more than three bytes stands as the
\* largest one
uintAt(swapData, at) ==
    IF \A j \in 1 .. 29 : swapData[at + j] = 0
    THEN swapData[at + 30] * 65536 + swapData[at + 31] * 256 + swapData[at + 32]
    ELSE UINT256_MAX

decodesAsMockBridge(swapData) ==
    /\ Len(swapData) >= SELECTOR_LENGTH + mockBridgeArgsLength
    /\ isAddressWord(swapData, SELECTOR_LENGTH)
    /\ isAddressWord(swapData, SELECTOR_LENGTH + 64)

\* mockBridge's _token and _amount
namedToken(swapData) == addressAt(swapData, SELECTOR_LENGTH)
namedAmount(swapData) == uintAt(swapData, SELECTOR_LENGTH + 32)

\* abi.decode of (address) after the selector
decodesAsGetBalance(swapData) ==
    /\ Len(swapData) >= SELECTOR_LENGTH + 32
    /\ isAddressWord(swapData, SELECTOR_LENGTH)

\* MockLiFi's dispatch on the calldata: mockBridge when the selector is its
\* own (it reverts, returning nothing, when the arguments do not decode or
\* _token is no token contract), getBalance when the selector is that
\* view's (it reverts the same way, and otherwise returns), receive() on
\* empty calldata and fallback() otherwise
mockLiFiCall(swapData) ==
    IF Len(swapData) >= SELECTOR_LENGTH /\ SubSeq(swapData, 1, SELECTOR_LENGTH) = mockSelector
    THEN IF decodesAsMockBridge(swapData) /\ namedToken(swapData) \in Tokens
         THEN "pullsNamed" ELSE "reverts"
    ELSE IF /\ Len(swapData) >= SELECTOR_LENGTH
            /\ SubSeq(swapData, 1, SELECTOR_LENGTH) = getBalanceSelector
    THEN IF decodesAsGetBalance(swapData) /\ namedToken(swapData) \in Tokens
         THEN "pullsNothing" ELSE "reverts"
    ELSE "pullsNothing"

\* MockLiFi's dispatch on every submitted payload, computed once
mockLiFiVerdict ==
    [d \in SwapDataInputs \cup BalancePayloads |->
        mockLiFiCall(d)]

\* what the current route target can do with the call: MockLiFi does what
\* its code says, the deployed Diamond any of reverting, returning without
\* pulling, and pulling what the ledger approved
routeOutcomes(swapData) ==
    IF lifiDiamond = ADDR.mockLiFi THEN {mockLiFiVerdict[swapData]}
    ELSE {"reverts", "revertsWithData", "pullsNothing", "pullsApproved"}

\* the token and the amount the route target pulls from the ledger
pulledToken(_token, _swapData, bridge) ==
    IF bridge = "pullsNamed" THEN namedToken(_swapData) ELSE _token

pulledAmount(_user, _token, _swapData, bridge) ==
    LET amountToTransfer == amountToTransferOf(_user, _token)
    IN  IF bridge = "pullsNamed" THEN namedAmount(_swapData)
        ELSE IF bridge = "pullsApproved"
             THEN amountToTransfer - watchtowerFeeOf(amountToTransfer)
        ELSE 0

\* `if (!success)`: the error liquidate ends with when the route call fails.
\* The call reverts by itself, without return data (BridgeCallFailed) or
\* with an error of its own, which is raised again; or its transferFrom
\* reverts in the token, which checks the ledger's allowance to the route
\* target (amountToBridge for _token, what earlier calls left for another
\* token) and then the ledger's balance, and the token's error is raised
\* again
routeCallRevert(_user, _token, _swapData, bridge) ==
    LET amountToTransfer == amountToTransferOf(_user, _token)
        watchtowerFee == watchtowerFeeOf(amountToTransfer)
        token == pulledToken(_token, _swapData, bridge)
        amount == pulledAmount(_user, _token, _swapData, bridge)
        approved == IF token = _token THEN amountToTransfer - watchtowerFee
                    ELSE allowanceOf(token, ADDR.lazarusSource, lifiDiamond)
        held == IF token = _token
                THEN ledgerBalanceAfterPull(_user, _token) - watchtowerFee
                ELSE balanceOf(token, ADDR.lazarusSource)
    IN  IF bridge = "reverts" THEN "BridgeCallFailed"
        ELSE IF bridge = "revertsWithData" THEN "RouteTargetError"
        ELSE IF amount > approved THEN "ERC20InsufficientAllowance"
        ELSE IF amount > held THEN "ERC20InsufficientBalance"
        ELSE "none"

\* markDead, flipping the flag instead of setting it
markDeadToggle(_user) == [isDead EXCEPT ![_user] = ~@]

\* if (!isDead[_user]) isDead[_user] = true
markDead(_user) == IF ~isDead[_user] THEN [isDead EXCEPT ![_user] = TRUE] ELSE isDead

\* liquidateRevert, ignoring the success flag of lifiDiamond.call
liquidateRevertIgnoringCallResult(sender, _user, _token, _swapData, bridge) ==
    IF ~onlyWatchtower(sender) THEN "NotWatchtower"
    ELSE IF ~isRegistered[_user] THEN "NotRegistered"
    ELSE IF _token = ADDR.zero THEN "InvalidToken"
    ELSE IF deadlineOverflows(_user) THEN "Panic"
    ELSE IF notDeadYet(_user) THEN "NotDeadYet"
    ELSE IF swapDataVerdict[_swapData][beneficiaries[_user]] THEN "InvalidBeneficiary"
    ELSE IF amountToTransferOf(_user, _token) = 0 THEN "InsufficientAllowance"
    ELSE IF ledgerBalanceAfterPull(_user, _token)
               < watchtowerFeeOf(amountToTransferOf(_user, _token))
         THEN "ERC20InsufficientBalance"
    ELSE "none"

liquidateRevert(sender, _user, _token, _swapData, bridge) ==
    IF ~onlyWatchtower(sender) THEN "NotWatchtower"
    ELSE IF ~isRegistered[_user] THEN "NotRegistered"
    ELSE IF _token = ADDR.zero THEN "InvalidToken"
    ELSE IF deadlineOverflows(_user) THEN "Panic"
    ELSE IF notDeadYet(_user) THEN "NotDeadYet"
    ELSE IF swapDataVerdict[_swapData][beneficiaries[_user]] THEN "InvalidBeneficiary"
    ELSE IF amountToTransferOf(_user, _token) = 0 THEN "InsufficientAllowance"
    ELSE IF ledgerBalanceAfterPull(_user, _token)
               < watchtowerFeeOf(amountToTransferOf(_user, _token))
         THEN "ERC20InsufficientBalance"
    ELSE routeCallRevert(_user, _token, _swapData, bridge)

\* liquidate as a transaction of the ledger: what it checks and writes
liquidateEffects(sender, _user, _token, _swapData, bridge) ==
    /\ bridge \in routeOutcomes(_swapData)
    /\ liquidateRevert(sender, _user, _token, _swapData, bridge) = "none"
    /\ LET depositedAmount == userDeposits[_user][_token]
           allowanceAmount == allowanceAmountOf(_user, _token)
           amountToTransfer == amountToTransferOf(_user, _token)
           watchtowerFee == watchtowerFeeOf(amountToTransfer)
           amountToBridge == amountToTransfer - watchtowerFee
           token == pulledToken(_token, _swapData, bridge)
           pulled == pulledAmount(_user, _token, _swapData, bridge)
           approved == [erc20Allowance EXCEPT
                           ![_token][<<_user, ADDR.lazarusSource>>] = @ - allowanceAmount,
                           ![_token][<<ADDR.lazarusSource, lifiDiamond>>] =
                               amountToBridge]
           afterPull == moved(erc20Balance, _token, _user, ADDR.lazarusSource,
                              allowanceAmount)
           afterFee == moved(afterPull, _token, ADDR.lazarusSource, sender,
                             watchtowerFee)
       IN  /\ isDead' = markDead(_user)
           /\ userDeposits' = [userDeposits EXCEPT ![_user][_token] = 0]
           /\ erc20Balance' = moved(afterFee, token, ADDR.lazarusSource,
                                    lifiDiamond, pulled)
           /\ erc20Allowance' =
                 [approved EXCEPT
                     ![token][<<ADDR.lazarusSource, lifiDiamond>>] = @ - pulled]
           /\ lastCall' = [Call("liquidate", sender, _user, _token, amountToBridge,
                                beneficiaries[_user], _swapData)
                              EXCEPT !.route = bridge]
    /\ UNCHANGED <<now, owner, watchtower, lifiDiamond, beneficiaries, lastHeartbeat,
                   inactivityPeriods, isRegistered>>

liquidate(sender, _user, _token, _swapData, bridge) ==
    /\ liquidateEffects(sender, _user, _token, _swapData, bridge)
    /\ UNCHANGED offLedgerVars

\* liquidate, ending in `if (!success) revert`: the transaction is rolled
\* back, so nothing the call did before the bridge call remains.
liquidateReverted(sender, _user, _token, _swapData, bridge) ==
    /\ bridge \in routeOutcomes(_swapData)
    /\ liquidateRevert(sender, _user, _token, _swapData, "pullsNothing") = "none"
    /\ routeCallRevert(_user, _token, _swapData, bridge) # "none"
    /\ lastCall' = [Call("liquidateReverted", sender, _user, _token,
                         amountToTransferOf(_user, _token), beneficiaries[_user],
                         _swapData)
                       EXCEPT !.route = bridge]
    /\ UNCHANGED <<now, ledgerVars, tokenVars>>
    /\ UNCHANGED offLedgerVars

(***************************************************************************)
(* View functions.                                                         *)
(***************************************************************************)
\* reverts: the call ends in Panic(0x11) and returns nothing
checkUserStatus(_user) ==
    IF ~isRegistered[_user]
    THEN [reverts |-> FALSE, canLiquidate |-> FALSE, timeRemaining |-> 0]
    ELSE IF deadlineOverflows(_user)
    THEN [reverts |-> TRUE, canLiquidate |-> FALSE, timeRemaining |-> 0]
    ELSE LET deadline == lastHeartbeat[_user] + inactivityPeriods[_user]
         IN  IF now > deadline
             THEN [reverts |-> FALSE, canLiquidate |-> TRUE, timeRemaining |-> 0]
             ELSE [reverts |-> FALSE, canLiquidate |-> FALSE,
                   timeRemaining |-> deadline - now]

\* a bool as the 32-byte word a call returns
wordOf(flag) == IF flag THEN 1 ELSE 0

\* the words getUserInfo(_user) returns from the deployed ledger: registered,
\* beneficiary, lastPing, inactivityPeriod and dead where the ledger has
\* periods; registered, beneficiary, lastPing and dead where it has the one
\* timeout
getUserInfoReturns(_user) ==
    IF processEnv.LAZARUS_SOURCE_ADDRESS = TimeoutLedger
    THEN << wordOf(isRegistered[_user]), beneficiaries[_user], lastHeartbeat[_user],
            wordOf(isDead[_user]) >>
    ELSE << wordOf(isRegistered[_user]), beneficiaries[_user], lastHeartbeat[_user],
            inactivityPeriods[_user], wordOf(isDead[_user]) >>

(***************************************************************************)
(* The off-chain Fund Aggregator (checkUserTokens, executeLiquidation).    *)
(***************************************************************************)
\* the names of the functions LazarusSourceABI lists, and ERC20ABI
LazarusSourceABI == {"checkUserStatus", "getUserInfo", "pingFor", "liquidate"}
ERC20ABI == {"allowance", "balanceOf"}

\* publicClient.readContract({abi, functionName, ...}): the call is encoded
\* from the ABI's entry of that name; when the ABI has no such entry the
\* promise is rejected, and no request is made for it
readContractRejects(abi, functionName) == functionName \notin abi

\* checkUserTokens: Promise.all of the reads of allowance and balanceOf
\* through ERC20ABI and of userDeposits through LazarusSourceABI is rejected
\* as soon as one of the three is; a read the client rejects is rejected
\* before any answer of the node
checkUserTokensRejects ==
    \/ readContractRejects(ERC20ABI, "allowance")
    \/ readContractRejects(ERC20ABI, "balanceOf")
    \/ readContractRejects(LazarusSourceABI, "userDeposits")

\* executeLiquidation, from three values read:
\* walletAmount = allowance < balance ? allowance : balance;
\* amountToLiquidate = walletAmount + depositedAmount
amountToLiquidate(allowance, balance, depositedAmount) ==
    LET walletAmount == IF allowance < balance THEN allowance ELSE balance
    IN  walletAmount + depositedAmount

\* const feeBps = 100n
feeBps == 100

\* const fee = (amountToLiquidate * feeBps) / 10000n
fee(_amountToLiquidate) == (_amountToLiquidate * feeBps) \div 10000

\* const amountToSwap = amountToLiquidate - fee
amountToSwap(_amountToLiquidate) == _amountToLiquidate - fee(_amountToLiquidate)

(***************************************************************************)
(* Admin functions.                                                        *)
(***************************************************************************)
\* modifier onlyOwner (Ownable)
onlyOwner(sender) == sender = owner

setWatchtowerRevert(sender, _newWatchtower) ==
    IF ~onlyOwner(sender) THEN "OwnableUnauthorizedAccount"
    ELSE IF _newWatchtower = ADDR.zero THEN "ZeroAddress"
    ELSE "none"

setWatchtower(sender, _newWatchtower) ==
    /\ setWatchtowerRevert(sender, _newWatchtower) = "none"
    /\ watchtower' = _newWatchtower
    /\ lastCall' = Call("setWatchtower", sender, ADDR.zero, ADDR.zero, 0,
                        _newWatchtower, << >>)
    /\ UNCHANGED <<now, owner, lifiDiamond, beneficiaries, lastHeartbeat,
                   inactivityPeriods, isDead, isRegistered, userDeposits, tokenVars>>
    /\ UNCHANGED offLedgerVars

setLiFiDiamondRevert(sender, _newDiamond) ==
    IF ~onlyOwner(sender) THEN "OwnableUnauthorizedAccount"
    ELSE IF _newDiamond = ADDR.zero THEN "ZeroAddress"
    ELSE "none"

setLiFiDiamond(sender, _newDiamond) ==
    /\ setLiFiDiamondRevert(sender, _newDiamond) = "none"
    /\ lifiDiamond' = _newDiamond
    /\ lastCall' = Call("setLiFiDiamond", sender, ADDR.zero, ADDR.zero, 0,
                        _newDiamond, << >>)
    /\ UNCHANGED <<now, owner, watchtower, beneficiaries, lastHeartbeat,
                   inactivityPeriods, isDead, isRegistered, userDeposits, tokenVars>>
    /\ UNCHANGED offLedgerVars

rescueTokensRevert(sender, _token, _to, _amount) ==
    IF ~onlyOwner(sender) THEN "OwnableUnauthorizedAccount"
    ELSE IF _to = ADDR.zero THEN "ZeroAddress"
    ELSE "none"

rescueAmountOf(_token, _amount) ==
    LET balance == balanceOf(_token, ADDR.lazarusSource)
        rescueAmount == IF _amount = UINT256_MAX THEN balance ELSE _amount
    IN  IF rescueAmount > balance THEN balance ELSE rescueAmount

rescueTokens(sender, _token, _to, _amount) ==
    /\ rescueTokensRevert(sender, _token, _to, _amount) = "none"
    /\ erc20Balance' = moved(erc20Balance, _token, ADDR.lazarusSource, _to,
                             rescueAmountOf(_token, _amount))
    /\ lastCall' = Call("rescueTokens", sender, ADDR.zero, _token,
                        rescueAmountOf(_token, _amount), _to, << >>)
    /\ UNCHANGED <<now, ledgerVars, erc20Allowance>>
    /\ UNCHANGED offLedgerVars

\* Ownable.transferOwnership(newOwner), inherited by LazarusSource
transferOwnershipRevert(sender, newOwner) ==
    IF ~onlyOwner(sender) THEN "OwnableUnauthorizedAccount"
    ELSE IF newOwner = ADDR.zero THEN "OwnableInvalidOwner"
    ELSE "none"

transferOwnership(sender, newOwner) ==
    /\ transferOwnershipRevert(sender, newOwner) = "none"
    /\ owner' = newOwner
    /\ lastCall' = Call("transferOwnership", sender, ADDR.zero, ADDR.zero, 0,
                        newOwner, << >>)
    /\ UNCHANGED <<now, watchtower, lifiDiamond, beneficiaries, lastHeartbeat,
                   inactivityPeriods, isDead, isRegistered, userDeposits, tokenVars>>
    /\ UNCHANGED offLedgerVars

\* Ownable.renounceOwnership(), inherited by LazarusSource
renounceOwnershipRevert(sender) ==
    IF ~onlyOwner(sender) THEN "OwnableUnauthorizedAccount" ELSE "none"

renounceOwnership(sender) ==
    /\ renounceOwnershipRevert(sender) = "none"
    /\ owner' = ADDR.zero
    /\ lastCall' = Call("renounceOwnership", sender, ADDR.zero, ADDR.zero, 0,
                        ADDR.zero, << >>)
    /\ UNCHANGED <<now, watchtower, lifiDiamond, beneficiaries, lastHeartbeat,
                   inactivityPeriods, isDead, isRegistered, userDeposits, tokenVars>>
    /\ UNCHANGED offLedgerVars

(***************************************************************************)
(* The environment: a user approves the ledger on a token, and time passes.*)
(***************************************************************************)
approve(sender, _token, _amount) ==
    /\ erc20Allowance' =
          [erc20Allowance EXCEPT ![_token][<<sender, ADDR.lazarusSource>>] = _amount]
    /\ lastCall' = Call("approve", sender, sender, _token, _amount,
                        ADDR.lazarusSource, << >>)
    /\ UNCHANGED <<now, ledgerVars, erc20Balance>>
    /\ UNCHANGED offLedgerVars

warp(seconds) ==
    /\ now + seconds <= MaxTime
    /\ now' = now + seconds
    /\ lastCall' = Call("warp", ADDR.zero, ADDR.zero, ADDR.zero, seconds, ADDR.zero, << >>)
    /\ UNCHANGED <<ledgerVars, tokenVars>>
    /\ UNCHANGED offLedgerVars

\* vm.warp(newTime): block.timestamp becomes newTime
warpTo(newTime) ==
    /\ newTime > now
    /\ now' = newTime
    /\ lastCall' = Call("warp", ADDR.zero, ADDR.zero, ADDR.zero, newTime - now,
                        ADDR.zero, << >>)
    /\ UNCHANGED <<ledgerVars, tokenVars>>
    /\ UNCHANGED offLedgerVars

\* user registers and updates with every input; randomUser registers with
\* the beneficiary and the floor, or below it
Next ==
    \/ \E b \in BeneficiaryInputs, p \in PeriodInputs : register(ADDR.user, b, p)
    \/ \E b \in {ADDR.zero, ADDR.beneficiary},
          p \in {MIN_INACTIVITY_PERIOD - 1, MIN_INACTIVITY_PERIOD} :
          register(ADDR.randomUser, b, p)
    \/ \E p \in PeriodInputs : updateInactivityPeriod(ADDR.user, p)
    \/ \E b \in BeneficiaryInputs : updateBeneficiary(ADDR.user, b)
    \/ \E s \in Users : ping(s)
    \/ \E s \in Callers, u \in Users : pingFor(s, u)
    \/ \E s \in Users, t \in TokenInputs, a \in AmountInputs : depositFunds(s, t, a)
    \/ \E s \in Users, t \in TokenInputs, a \in AmountInputs : withdrawFunds(s, t, a)
    \/ \E s \in Callers, u \in Users, t \in TokenInputs, d \in SwapDataInputs,
          o \in BridgeOutcomes : liquidate(s, u, t, d, o)
    \/ \E s \in Callers, u \in Users, t \in TokenInputs, d \in SwapDataInputs,
          o \in BridgeOutcomes : liquidateReverted(s, u, t, d, o)
    \/ \E s \in Callers, w \in {ADDR.zero} \cup Watchtowers : setWatchtower(s, w)
    \/ \E s \in Callers, d \in {ADDR.zero, ADDR.mockLiFi} : setLiFiDiamond(s, d)
    \/ \E s \in Callers : rescueTokens(s, ADDR.weth, ADDR.owner, UINT256_MAX)
    \/ \E s \in Callers, n \in {ADDR.zero, ADDR.randomUser} : transferOwnership(s, n)
    \/ \E s \in Callers : renounceOwnership(s)
    \/ approve(ADDR.user, ADDR.weth, 100)
    \/ \E d \in TimeSteps : warp(d)

Spec == Init /\ [][Next]_vars

(***************************************************************************)
(* The multi-token sweep: the same ledger, with the user holding both      *)
(* tokens, so that a user can be liquidated for one token after another.   *)
(***************************************************************************)
SweepInit ==
    /\ now = 1
    /\ owner = ADDR.owner
    /\ watchtower = ADDR.watchtower
    /\ lifiDiamond \in Diamonds
    /\ beneficiaries = [u \in Users |-> ADDR.zero]
    /\ lastHeartbeat = [u \in Users |-> 0]
    /\ inactivityPeriods = [u \in Users |-> 0]
    /\ isDead = [u \in Users |-> FALSE]
    /\ isRegistered = [u \in Users |-> FALSE]
    /\ userDeposits = [u \in Users |-> [t \in Tokens |-> 0]]
    /\ erc20Balance =
          [t \in Tokens |-> [h \in Holders |-> IF h = ADDR.user THEN 100 ELSE 0]]
    /\ erc20Allowance = [t \in Tokens |-> [p \in AllowancePairs |-> 0]]
    /\ lastCall = Call("constructor", ADDR.owner, ADDR.zero, ADDR.zero, 0,
                       ADDR.watchtower, << >>)
    /\ vaultDeployed
    /\ relayStarted

SweepNext ==
    \/ register(ADDR.user, ADDR.beneficiary, MIN_INACTIVITY_PERIOD)
    \/ ping(ADDR.user)
    \/ \E t \in Tokens : approve(ADDR.user, t, 100)
    \/ \E t \in Tokens : depositFunds(ADDR.user, t, 100)
    \/ \E t \in Tokens : rescueTokens(ADDR.owner, t, ADDR.owner, UINT256_MAX)
    \/ \E to \in {ADDR.user, ADDR.lazarusSource} :
          /\ totalSupply(ADDR.weth) + MintAmount <= MaxSupply
          /\ mint(ADDR.weth, to, MintAmount)
    \/ \E s \in Watchtowers, u \in Users, t \in Tokens, d \in SwapDataInputs,
          o \in BridgeOutcomes : liquidate(s, u, t, d, o)
    \/ \E s \in Watchtowers, u \in Users, t \in Tokens, d \in SwapDataInputs,
          o \in BridgeOutcomes : liquidateReverted(s, u, t, d, o)
    \/ \E d \in TimeSteps : warp(d)

SweepSpec == SweepInit /\ [][SweepNext]_vars

(***************************************************************************)
(* The status view over long periods: registrations with the floor, with   *)
(* 7 days and with the largest uint256, read at t0, t0 + 6d23h, t0 + 7d    *)
(* and t0 + 7d + 1s.                                                       *)
(***************************************************************************)
StatusPeriods == {MIN_INACTIVITY_PERIOD, DEAD_MAN_TIMEOUT, UINT256_MAX}

StatusInstants ==
    {1 + DEAD_MAN_TIMEOUT - 3600, 1 + DEAD_MAN_TIMEOUT, 1 + DEAD_MAN_TIMEOUT + 1}

StatusNext ==
    \/ \E s \in Users, p \in StatusPeriods : register(s, ADDR.beneficiary, p)
    \/ \E s \in Users, p \in StatusPeriods : updateInactivityPeriod(s, p)
    \/ \E s \in Users : ping(s)
    \/ approve(ADDR.user, ADDR.weth, 100)
    \/ \E u \in Users, o \in BridgeOutcomes :
          liquidate(watchtower, u, ADDR.weth, emptySwapData, o)
    \/ \E newTime \in StatusInstants : warpTo(newTime)

StatusSpec == Init /\ [][StatusNext]_vars

(***************************************************************************)
(* Custody: the same ledger with two depositors of the same token, who     *)
(* deposit and withdraw in parts.                                          *)
(***************************************************************************)
\* weth minted to each depositor
CustodySupply == 3
CustodyAmounts == {0, 1, 2}

CustodyInit ==
    /\ now = 1
    /\ owner = ADDR.owner
    /\ watchtower = ADDR.watchtower
    /\ lifiDiamond = ADDR.mockLiFi
    /\ beneficiaries = [u \in Users |-> ADDR.zero]
    /\ lastHeartbeat = [u \in Users |-> 0]
    /\ inactivityPeriods = [u \in Users |-> 0]
    /\ isDead = [u \in Users |-> FALSE]
    /\ isRegistered = [u \in Users |-> FALSE]
    /\ userDeposits = [u \in Users |-> [t \in Tokens |-> 0]]
    /\ erc20Balance =
          [t \in Tokens |-> [h \in Holders |->
              IF h \in Users /\ t = ADDR.weth THEN CustodySupply ELSE 0]]
    /\ erc20Allowance = [t \in Tokens |-> [q \in AllowancePairs |-> 0]]
    /\ lastCall = Call("constructor", ADDR.owner, ADDR.zero, ADDR.zero, 0,
                       ADDR.watchtower, << >>)
    /\ vaultDeployed
    /\ relayStarted

CustodyNext ==
    \/ \E s \in Users : register(s, ADDR.beneficiary, MIN_INACTIVITY_PERIOD)
    \/ \E s \in Users : approve(s, ADDR.weth, CustodySupply)
    \/ \E s \in Users, t \in TokenInputs, a \in CustodyAmounts : depositFunds(s, t, a)
    \/ \E s \in Users, t \in TokenInputs, a \in CustodyAmounts : withdrawFunds(s, t, a)
    \/ rescueTokens(ADDR.owner, ADDR.weth, ADDR.owner, 1)

CustodySpec == CustodyInit /\ [][CustodyNext]_vars

(***************************************************************************)
(* LazarusVault (usdc is the tracked token).  Its owner is the ledger's    *)
(* deployer.                                                               *)
(***************************************************************************)
VaultBeneficiaries == {ADDR.beneficiary, ADDR.randomUser}
VaultDepositors == {ADDR.depositor, ADDR.randomUser}
VaultAmounts == {0, 1, 2, UINT256_MAX}
\* usdc minted to the test contract before the vault calls
VaultSupply == 3

depositRevert(sender, _beneficiary, _amount) ==
    IF _beneficiary = ADDR.zero THEN "ZeroAddress"
    ELSE IF _amount = 0 THEN "ZeroAmount"
    ELSE IF allowanceOf(ADDR.usdc, sender, ADDR.lazarusVault) < _amount
         THEN "ERC20InsufficientAllowance"
    ELSE IF balanceOf(ADDR.usdc, sender) < _amount THEN "ERC20InsufficientBalance"
    ELSE "none"

deposit(sender, _beneficiary, _amount) ==
    /\ depositRevert(sender, _beneficiary, _amount) = "none"
    /\ erc20Balance' = moved(erc20Balance, ADDR.usdc, sender, ADDR.lazarusVault, _amount)
    /\ erc20Allowance' =
          [erc20Allowance EXCEPT ![ADDR.usdc][<<sender, ADDR.lazarusVault>>] = @ - _amount]
    /\ balances' = [balances EXCEPT ![_beneficiary] = @ + _amount]
    /\ totalTrackedBalance' = totalTrackedBalance + _amount
    /\ lastCall' = Call("deposit", sender, _beneficiary, ADDR.usdc, _amount,
                        ADDR.lazarusVault, << >>)
    /\ UNCHANGED <<now, ledgerVars, vaultOwner, authorizedDepositors>>
    /\ UNCHANGED offVaultVars

\* depositAuthorizedRevert, without the check of the held balance
depositAuthorizedRevertNoBalanceCheck(sender, _beneficiary, _amount) ==
    IF ~authorizedDepositors[sender] THEN "NotAuthorizedDepositor"
    ELSE IF _beneficiary = ADDR.zero THEN "ZeroAddress"
    ELSE IF _amount = 0 THEN "ZeroAmount"
    ELSE IF _amount > UINT256_MAX - totalTrackedBalance THEN "Panic"
    ELSE "none"

depositAuthorizedRevert(sender, _beneficiary, _amount) ==
    IF ~authorizedDepositors[sender] THEN "NotAuthorizedDepositor"
    ELSE IF _beneficiary = ADDR.zero THEN "ZeroAddress"
    ELSE IF _amount = 0 THEN "ZeroAmount"
    ELSE IF _amount > UINT256_MAX - totalTrackedBalance THEN "Panic"
    ELSE IF balanceOf(ADDR.usdc, ADDR.lazarusVault) < totalTrackedBalance + _amount
         THEN "InsufficientBalance"
    ELSE "none"

depositAuthorized(sender, _beneficiary, _amount) ==
    /\ depositAuthorizedRevert(sender, _beneficiary, _amount) = "none"
    /\ balances' = [balances EXCEPT ![_beneficiary] = @ + _amount]
    /\ totalTrackedBalance' = totalTrackedBalance + _amount
    /\ lastCall' = Call("depositAuthorized", sender, _beneficiary, ADDR.usdc, _amount,
                        ADDR.lazarusVault, << >>)
    /\ UNCHANGED <<now, ledgerVars, tokenVars, vaultOwner, authorizedDepositors>>
    /\ UNCHANGED offVaultVars

claimRevert(sender) ==
    IF balances[sender] = 0 THEN "InsufficientBalance"
    ELSE IF balanceOf(ADDR.usdc, ADDR.lazarusVault) < balances[sender]
         THEN "ERC20InsufficientBalance"
    ELSE "none"

claim(sender) ==
    /\ claimRevert(sender) = "none"
    /\ balances' = [balances EXCEPT ![sender] = 0]
    /\ totalTrackedBalance' = totalTrackedBalance - balances[sender]
    /\ erc20Balance' = moved(erc20Balance, ADDR.usdc, ADDR.lazarusVault, sender,
                             balances[sender])
    /\ lastCall' = Call("claim", sender, sender, ADDR.usdc, balances[sender],
                        ADDR.lazarusVault, << >>)
    /\ UNCHANGED <<now, ledgerVars, erc20Allowance, vaultOwner, authorizedDepositors>>
    /\ UNCHANGED offVaultVars

\* claimAmountRevert, without the check against the credited balance
claimAmountRevertNoBalanceCheck(sender, _amount) ==
    IF _amount = 0 THEN "ZeroAmount"
    ELSE IF balanceOf(ADDR.usdc, ADDR.lazarusVault) < _amount
         THEN "ERC20InsufficientBalance"
    ELSE "none"

claimAmountRevert(sender, _amount) ==
    IF _amount = 0 THEN "ZeroAmount"
    ELSE IF balances[sender] < _amount THEN "InsufficientBalance"
    ELSE IF balanceOf(ADDR.usdc, ADDR.lazarusVault) < _amount
         THEN "ERC20InsufficientBalance"
    ELSE "none"

claimAmount(sender, _amount) ==
    /\ claimAmountRevert(sender, _amount) = "none"
    /\ balances' = [balances EXCEPT ![sender] = @ - _amount]
    /\ totalTrackedBalance' = totalTrackedBalance - _amount
    /\ erc20Balance' = moved(erc20Balance, ADDR.usdc, ADDR.lazarusVault, sender, _amount)
    /\ lastCall' = Call("claimAmount", sender, sender, ADDR.usdc, _amount,
                        ADDR.lazarusVault, << >>)
    /\ UNCHANGED <<now, ledgerVars, erc20Allowance, vaultOwner, authorizedDepositors>>
    /\ UNCHANGED offVaultVars

getBalance(_beneficiary) == balances[_beneficiary]

_getTotalTrackedBalance == totalTrackedBalance

\* modifier onlyOwner (Ownable) of the vault
onlyVaultOwner(sender) == sender = vaultOwner

setAuthorizedDepositorRevert(sender, _depositor, _authorized) ==
    IF ~onlyVaultOwner(sender) THEN "OwnableUnauthorizedAccount"
    ELSE IF _depositor = ADDR.zero THEN "ZeroAddress"
    ELSE "none"

setAuthorizedDepositor(sender, _depositor, _authorized) ==
    /\ setAuthorizedDepositorRevert(sender, _depositor, _authorized) = "none"
    /\ authorizedDepositors' = [authorizedDepositors EXCEPT ![_depositor] = _authorized]
    /\ lastCall' = Call("setAuthorizedDepositor", sender, ADDR.zero, ADDR.zero,
                        IF _authorized THEN 1 ELSE 0, _depositor, << >>)
    /\ UNCHANGED <<now, ledgerVars, tokenVars, vaultOwner, balances, totalTrackedBalance>>
    /\ UNCHANGED offVaultVars

\* vaultRescueAmountOf, sweeping the whole held balance of any token
vaultRescueAmountUntracked(_token) == balanceOf(_token, ADDR.lazarusVault)

\* vaultRescueAmountOf, taking one token more than the excess
vaultRescueAmountOneTooMany(_token) ==
    LET balance == balanceOf(_token, ADDR.lazarusVault)
        tracked == totalTrackedBalance
    IN  IF _token = ADDR.usdc
        THEN IF balance > tracked THEN balance - tracked + 1 ELSE 0
        ELSE balance

\* what rescueTokens transfers out; for usdc only the excess over the tracked
\* total, and then only if there is any
vaultRescueAmountOf(_token) ==
    LET balance == balanceOf(_token, ADDR.lazarusVault)
        tracked == _getTotalTrackedBalance
    IN  IF _token = ADDR.usdc
        THEN IF balance > tracked THEN balance - tracked ELSE 0
        ELSE balance

\* for usdc the transfer is made only when there is an excess
vaultRescueTransfers(_token) ==
    _token # ADDR.usdc \/ balanceOf(ADDR.usdc, ADDR.lazarusVault) > _getTotalTrackedBalance

vaultRescueTokensRevert(sender, _token, _to) ==
    IF ~onlyVaultOwner(sender) THEN "OwnableUnauthorizedAccount"
    ELSE IF vaultRescueTransfers(_token) /\ _to = ADDR.zero THEN "ERC20InvalidReceiver"
    ELSE "none"

vaultRescueTokens(sender, _token, _to) ==
    /\ vaultRescueTokensRevert(sender, _token, _to) = "none"
    /\ erc20Balance' =
          IF _to = ADDR.zero THEN erc20Balance
          ELSE moved(erc20Balance, _token, ADDR.lazarusVault, _to,
                     vaultRescueAmountOf(_token))
    /\ lastCall' = Call("vaultRescueTokens", sender, ADDR.zero, _token,
                        vaultRescueAmountOf(_token), _to, << >>)
    /\ UNCHANGED <<now, ledgerVars, erc20Allowance, vaultVars>>
    /\ UNCHANGED offVaultVars

\* Ownable.transferOwnership(newOwner), inherited by LazarusVault
vaultTransferOwnershipRevert(sender, newOwner) ==
    IF ~onlyVaultOwner(sender) THEN "OwnableUnauthorizedAccount"
    ELSE IF newOwner = ADDR.zero THEN "OwnableInvalidOwner"
    ELSE "none"

vaultTransferOwnership(sender, newOwner) ==
    /\ vaultTransferOwnershipRevert(sender, newOwner) = "none"
    /\ vaultOwner' = newOwner
    /\ lastCall' = Call("vaultTransferOwnership", sender, ADDR.zero, ADDR.zero, 0,
                        newOwner, << >>)
    /\ UNCHANGED <<now, ledgerVars, tokenVars, balances, authorizedDepositors,
                   totalTrackedBalance>>
    /\ UNCHANGED offVaultVars

\* Ownable.renounceOwnership(), inherited by LazarusVault
vaultRenounceOwnershipRevert(sender) ==
    IF ~onlyVaultOwner(sender) THEN "OwnableUnauthorizedAccount" ELSE "none"

vaultRenounceOwnership(sender) ==
    /\ vaultRenounceOwnershipRevert(sender) = "none"
    /\ vaultOwner' = ADDR.zero
    /\ lastCall' = Call("vaultRenounceOwnership", sender, ADDR.zero, ADDR.zero, 0,
                        ADDR.zero, << >>)
    /\ UNCHANGED <<now, ledgerVars, tokenVars, balances, authorizedDepositors,
                   totalTrackedBalance>>
    /\ UNCHANGED offVaultVars

\* usdc.approve(address(lazarusVault), amount)
approveVault(sender, _amount) ==
    /\ erc20Allowance' =
          [erc20Allowance EXCEPT ![ADDR.usdc][<<sender, ADDR.lazarusVault>>] = _amount]
    /\ lastCall' = Call("approve", sender, sender, ADDR.usdc, _amount,
                        ADDR.lazarusVault, << >>)
    /\ UNCHANGED <<now, ledgerVars, erc20Balance, vaultVars>>
    /\ UNCHANGED offVaultVars

\* token.transfer(to, amount): tokens arriving at the vault by another path
transfer(sender, _token, _to, _amount) ==
    /\ balanceOf(_token, sender) >= _amount
    /\ erc20Balance' = moved(erc20Balance, _token, sender, _to, _amount)
    /\ lastCall' = Call("transfer", sender, ADDR.zero, _token, _amount, _to, << >>)
    /\ UNCHANGED <<now, ledgerVars, erc20Allowance, vaultVars>>
    /\ UNCHANGED offVaultVars

\* setUp of the vault tests: the vault deployed, usdc and weth minted to the
\* test contract
VaultInit ==
    /\ now = 1
    /\ owner = ADDR.owner
    /\ watchtower = ADDR.watchtower
    /\ lifiDiamond = ADDR.mockLiFi
    /\ beneficiaries = [u \in Users |-> ADDR.zero]
    /\ lastHeartbeat = [u \in Users |-> 0]
    /\ inactivityPeriods = [u \in Users |-> 0]
    /\ isDead = [u \in Users |-> FALSE]
    /\ isRegistered = [u \in Users |-> FALSE]
    /\ userDeposits = [u \in Users |-> [t \in Tokens |-> 0]]
    /\ erc20Balance =
          [t \in Tokens |-> [h \in Holders |->
              IF h = ADDR.this THEN (IF t = ADDR.usdc THEN VaultSupply ELSE 1) ELSE 0]]
    /\ erc20Allowance = [t \in Tokens |-> [p \in AllowancePairs |-> 0]]
    /\ lastCall = Call("constructor", ADDR.owner, ADDR.zero, ADDR.zero, 0,
                       ADDR.usdc, << >>)
    /\ balances = [b \in VaultBeneficiaries |-> 0]
    /\ vaultOwner = ADDR.owner
    /\ authorizedDepositors = [d \in VaultDepositors |-> FALSE]
    /\ totalTrackedBalance = 0
    /\ relayStarted

VaultNext ==
    \/ \E b \in {ADDR.zero} \cup VaultBeneficiaries, a \in VaultAmounts :
          deposit(ADDR.this, b, a)
    \/ \E s \in VaultDepositors, b \in {ADDR.zero} \cup VaultBeneficiaries,
          a \in VaultAmounts : depositAuthorized(s, b, a)
    \/ \E s \in VaultBeneficiaries : claim(s)
    \/ \E s \in VaultBeneficiaries, a \in VaultAmounts : claimAmount(s, a)
    \/ \E s \in {ADDR.owner, ADDR.randomUser}, d \in {ADDR.zero, ADDR.depositor},
          f \in BOOLEAN : setAuthorizedDepositor(s, d, f)
    \/ \E s \in {ADDR.owner, ADDR.randomUser}, t \in Tokens,
          to \in {ADDR.zero, ADDR.owner} : vaultRescueTokens(s, t, to)
    \/ \E s \in {ADDR.owner, ADDR.randomUser}, n \in {ADDR.zero, ADDR.randomUser} :
          vaultTransferOwnership(s, n)
    \/ \E s \in {ADDR.owner, ADDR.randomUser} : vaultRenounceOwnership(s)
    \/ \E a \in {2, VaultSupply} : approveVault(ADDR.this, a)
    \/ \E t \in Tokens : transfer(ADDR.this, t, ADDR.lazarusVault, 1)
    \/ \E to \in {ADDR.this, ADDR.lazarusVault} :
          /\ totalSupply(ADDR.usdc) <= VaultSupply
          /\ mint(ADDR.usdc, to, 1)

VaultSpec == VaultInit /\ [][VaultNext]_vars

(***************************************************************************)
(* The Heartbeat Relay: POST /heartbeat of the watchtower server, its      *)
(* signature check and its heartbeats table.  A signature is the record of *)
(* who signed which typed data under which domain, which is all that       *)
(* verification can learn from it.                                         *)
(***************************************************************************)
sourceChainId == 11155111
destinationChainId == 42161
defaultInactivityPeriod == 604800
fiveMinutes == 300

dateNow == clock

getHeartbeatDomain(chainId) ==
    [name |-> "Lazarus Protocol", version |-> "1", chainId |-> chainId]

signTypedData(signer, domain, message) ==
    [signer |-> signer, domain |-> domain, message |-> message]

\* isAddressEqual
isAddressEqual(a, b) == toLowerCase(a) = toLowerCase(b)

verifyTypedData(address, domain, message, signature) ==
    /\ isAddressEqual(signature.signer, address)
    /\ signature.domain = domain
    /\ signature.message = message

\* timestampInWindow, with the two ends of the window outside it
timestampInWindowStrict(message, nowSeconds) ==
    ~(message.timestamp <= nowSeconds - fiveMinutes
         \/ message.timestamp >= nowSeconds + fiveMinutes)

timestampInWindow(message, nowSeconds) ==
    ~(message.timestamp < nowSeconds - fiveMinutes
         \/ message.timestamp > nowSeconds + fiveMinutes)

verifyYellowSignature(message, signature, expectedSigner, chainId) ==
    LET nowSeconds == dateNow \div 1000
    IN  IF ~timestampInWindow(message, nowSeconds)
        THEN [valid |-> FALSE, error |-> "Heartbeat timestamp is too old or in the future"]
        ELSE IF ~verifyTypedData(expectedSigner, getHeartbeatDomain(chainId),
                                 message, signature)
        THEN [valid |-> FALSE, error |-> "Signature verification failed"]
        ELSE [valid |-> TRUE, error |-> "none"]

\* HeartbeatStore
getHeartbeat(userAddress) == store[toLowerCase(userAddress)]

\* INSERT ... ON CONFLICT(user_address) DO UPDATE: created_at is kept
upsert(key, signature, inactivityPeriod) ==
    [store EXCEPT ![key] =
        [userAddress |-> key,
         lastSeen |-> dateNow,
         signature |-> signature,
         inactivityPeriod |-> inactivityPeriod,
         createdAt |-> IF store[key] = NoRecord THEN dateNow
                       ELSE store[key].createdAt,
         updatedAt |-> dateNow]]

\* recordHeartbeat, also stamping every other row
recordHeartbeatStampingAll(userAddress, signature, inactivityPeriod) ==
    LET written == upsert(toLowerCase(userAddress), signature, inactivityPeriod)
    IN  [k \in DOMAIN store |->
            IF k # toLowerCase(userAddress) /\ store[k] # NoRecord
            THEN [store[k] EXCEPT !.updatedAt = dateNow]
            ELSE written[k]]

\* recordHeartbeat, keyed by the address as it was spelled
recordHeartbeatAsSpelled(userAddress, signature, inactivityPeriod) ==
    upsert(userAddress, signature, inactivityPeriod)

recordHeartbeat(userAddress, signature, inactivityPeriod) ==
    LET normalizedAddress == toLowerCase(userAddress)
    IN  upsert(normalizedAddress, signature, inactivityPeriod)

(***************************************************************************)
(* POST /heartbeat await by await.  A handler runs to its next await in    *)
(* one step: up to the signature verification, then up to the chain read   *)
(* made for a user with no record, then to the end.  The clock moves and   *)
(* the watchers and other handlers run while a handler is at an await.     *)
(***************************************************************************)
respond(req, status, error) ==
    /\ lastRequest' = req
    /\ response' = [status |-> status, error |-> error]

\* stands for an address string that is not 0x and 40 hex digits
malformedAddress == 1000

\* /^0x[a-fA-F0-9]{40}$/.test(address)
isAddressFormat(address) == address # malformedAddress

\* from the request's arrival to `await verifyTypedData`: the body checks,
\* BigInt(message.timestamp), which throws into the outer catch, and the
\* timestamp window of verifyYellowSignature, taken at this instant
receive(h, req) ==
    /\ inFlight[h] = Idle
    /\ lastCall' = Call("receive", ADDR.zero, req.address, ADDR.zero, h,
                        ADDR.zero, << >>)
    /\ IF ~req.complete
       THEN /\ respond(req, 400, "Missing required fields")
            /\ UNCHANGED inFlight
       ELSE IF ~isAddressFormat(req.address)
       THEN /\ respond(req, 400, "Invalid address format")
            /\ UNCHANGED inFlight
       ELSE IF ~req.parses
       THEN /\ respond(req, 500, "Internal server error")
            /\ UNCHANGED inFlight
       ELSE IF ~timestampInWindow(req.message, dateNow \div 1000)
       THEN /\ respond(req, 401, "Heartbeat timestamp is too old or in the future")
            /\ UNCHANGED inFlight
       ELSE /\ inFlight' = [inFlight EXCEPT ![h] =
                               [pc |-> "verifying", req |-> req,
                                now |-> dateNow \div 1000]]
            /\ UNCHANGED <<lastRequest, response>>
    /\ UNCHANGED <<now, ledgerVars, tokenVars, vaultVars, scanVars, clock, store>>

\* from the verification's result to `await publicClient.readContract`, or to
\* the end when the signature is bad or the user has a record
verified(h) ==
    /\ inFlight[h].pc = "verifying"
    /\ LET req == inFlight[h].req
           existingRecord == getHeartbeat(req.address)
       IN  /\ lastCall' = Call("verified", ADDR.zero, req.address, ADDR.zero, h,
                               ADDR.zero, << >>)
           /\ IF ~verifyTypedData(req.address, getHeartbeatDomain(sourceChainId),
                                  req.message, req.signature)
              THEN /\ respond(req, 401, "Signature verification failed")
                   /\ inFlight' = [inFlight EXCEPT ![h] = Idle]
                   /\ store' = store
              ELSE IF existingRecord # NoRecord
              THEN /\ store' = recordHeartbeat(req.address, req.signature,
                                               existingRecord.inactivityPeriod)
                   /\ respond(req, 200, "none")
                   /\ inFlight' = [inFlight EXCEPT ![h] = Idle]
              ELSE /\ inFlight' = [inFlight EXCEPT ![h].pc = "reading"]
                   /\ UNCHANGED <<store, lastRequest, response>>
    /\ UNCHANGED <<now, ledgerVars, tokenVars, vaultVars, scanVars, clock>>

\* from the chain read's result to the end
chainRead(h, chainReadOk) ==
    /\ inFlight[h].pc = "reading"
    /\ LET req == inFlight[h].req
           userInfo == getUserInfoReturns(toLowerCase(req.address))
           inactivityPeriod ==
               IF chainReadOk THEN userInfo[4] ELSE defaultInactivityPeriod
       IN  /\ lastCall' = Call("chainRead", ADDR.zero, req.address, ADDR.zero, h,
                               ADDR.zero, << >>)
           /\ store' = recordHeartbeat(req.address, req.signature, inactivityPeriod)
           /\ respond(req, 200, "none")
           /\ inFlight' = [inFlight EXCEPT ![h] = Idle]
    /\ UNCHANGED <<now, ledgerVars, tokenVars, vaultVars, scanVars, clock>>

\* the free slot a new request takes
firstIdle(h) == inFlight[h] = Idle /\ \A g \in Slots : g < h => inFlight[g] # Idle

\* a request arrives and is taken at once, whatever the handlers at an
\* await
postHeartbeat(req) == \E h \in Slots : firstIdle(h) /\ receive(h, req)

\* the relay's clock moves on
tick(t) ==
    /\ t > clock
    /\ clock' = t
    /\ lastCall' = Call("tick", ADDR.zero, ADDR.zero, ADDR.zero, t - clock,
                        ADDR.zero, << >>)
    /\ UNCHANGED <<now, ledgerVars, tokenVars, vaultVars, scanVars, store, lastRequest, response,
                   inFlight>>

\* a later instant, not on a whole second
ClockInstants == {RelayEpoch + 301999}
TimestampOffsets == {0 - 301, 0 - 300, 300, 301}
ChainIds == {sourceChainId, destinationChainId}

\* a heartbeat as a client builds it: the claimed address, the message sent
\* and the signature, made by signer over the message as it was signed
heartbeatRequest(complete, address, signer, chainId, sentOffset, signedOffset) ==
    LET nowSeconds == dateNow \div 1000
        sent == [message |-> "I am alive", timestamp |-> nowSeconds + sentOffset,
                 nonce |-> 1]
        signed == [sent EXCEPT !.timestamp = nowSeconds + signedOffset]
    IN  [complete |-> complete,
         address |-> address,
         parses |-> TRUE,
         message |-> sent,
         signature |-> signTypedData(signer, getHeartbeatDomain(chainId), signed)]

\* the same request with a message.timestamp that BigInt() does not accept
unparsable(req) == [req EXCEPT !.parses = FALSE]

RelayNext ==
    \/ \E sentOffset \in TimestampOffsets :
          postHeartbeat(heartbeatRequest(TRUE, ADDR.user, ADDR.user, sourceChainId,
                                         sentOffset, sentOffset))
    \/ postHeartbeat(heartbeatRequest(TRUE, ADDR.randomUser, ADDR.randomUser,
                                      sourceChainId, 300, 300))
    \/ \E forgery \in {<<ADDR.randomUser, sourceChainId>>,
                         <<ADDR.user, destinationChainId>>} :
          postHeartbeat(heartbeatRequest(TRUE, ADDR.user, forgery[1], forgery[2],
                                         0, 0))
    \/ postHeartbeat(heartbeatRequest(FALSE, ADDR.user, ADDR.user, sourceChainId,
                                      0, 0))
    \/ postHeartbeat(heartbeatRequest(TRUE, malformedAddress, ADDR.user,
                                      sourceChainId, 0, 0))
    \/ postHeartbeat(unparsable(heartbeatRequest(TRUE, ADDR.user, ADDR.user,
                                                 sourceChainId, 0, 0)))
    \/ \E h \in Slots : verified(h)
    \/ \E h \in Slots, chainReadOk \in BOOLEAN : chainRead(h, chainReadOk)
    \/ \E t \in ClockInstants : tick(t)

RelaySpec == Init /\ [][RelayNext]_vars

(***************************************************************************)
(* Replay: heartbeats carry the second at which the client built them and  *)
(* may be submitted at that instant or at any later one.                   *)
(***************************************************************************)
ReplayInstants == {RelayEpoch, RelayEpoch + 150000, RelayEpoch + 301999}
Nonces == {1, 2}

\* generateHeartbeatMessage at instant builtAt, signed by the sender
heartbeatBuiltAt(address, builtAt, nonce) ==
    LET message == [message |-> "I am alive", timestamp |-> builtAt \div 1000,
                    nonce |-> nonce]
    IN  [complete |-> TRUE,
         address |-> address,
         parses |-> TRUE,
         message |-> message,
         signature |-> signTypedData(address, getHeartbeatDomain(sourceChainId),
                                     message)]

ReplayNext ==
    \/ \E builtAt \in ReplayInstants, nonce \in Nonces :
          /\ builtAt <= clock
          /\ postHeartbeat(heartbeatBuiltAt(ADDR.user, builtAt, nonce))
    \/ \E h \in Slots : verified(h)
    \/ \E h \in Slots, chainReadOk \in BOOLEAN : chainRead(h, chainReadOk)
    \/ \E t \in ReplayInstants : tick(t)

ReplaySpec == Init /\ [][ReplayNext]_vars

(***************************************************************************)
(* The cache under heartbeats and registration signals: the two contract   *)
(* event watchers of the server, and addresses in either spelling.         *)
(***************************************************************************)
\* the signature stored for a user known only from a Registered event
pendingFirstHeartbeat ==
    signTypedData(ADDR.zero, getHeartbeatDomain(sourceChainId),
                  [message |-> "0x-pending-first-heartbeat", timestamp |-> 0,
                   nonce |-> 0])

\* watchContractEvent 'Registered', one log
onRegistered(user, inactivityPeriod) ==
    /\ store' = IF user # ADDR.zero /\ inactivityPeriod # 0
                   /\ getHeartbeat(user) = NoRecord
                THEN recordHeartbeat(user, pendingFirstHeartbeat, inactivityPeriod)
                ELSE store
    /\ lastCall' = Call("onRegistered", ADDR.zero, user, ADDR.zero,
                        inactivityPeriod, ADDR.zero, << >>)
    /\ UNCHANGED <<now, ledgerVars, tokenVars, vaultVars, scanVars, clock, lastRequest, response,
                   inFlight>>

\* watchContractEvent 'InactivityPeriodUpdated', one log
onInactivityPeriodUpdated(user, newPeriod) ==
    /\ store' = IF user # ADDR.zero /\ newPeriod # 0
                   /\ getHeartbeat(user) # NoRecord
                THEN recordHeartbeat(user, getHeartbeat(user).signature, newPeriod)
                ELSE store
    /\ lastCall' = Call("onInactivityPeriodUpdated", ADDR.zero, user, ADDR.zero,
                        newPeriod, ADDR.zero, << >>)
    /\ UNCHANGED <<now, ledgerVars, tokenVars, vaultVars, scanVars, clock, lastRequest, response,
                   inFlight>>

SignalPeriods == {0, MIN_INACTIVITY_PERIOD, MIN_INACTIVITY_PERIOD + 1}
CacheInstants == {RelayEpoch + 1999}

CacheNext ==
    \/ \E address \in {ADDR.user, checksumSpelling(ADDR.user)} :
          postHeartbeat(heartbeatBuiltAt(address, clock, 1))
    \/ \E h \in Slots : verified(h)
    \/ \E h \in Slots, chainReadOk \in BOOLEAN : chainRead(h, chainReadOk)
    \/ \E u \in Users, q \in SignalPeriods : onRegistered(checksumSpelling(u), q)
    \/ \E u \in Users, q \in SignalPeriods :
          onInactivityPeriodUpdated(checksumSpelling(u), q)
    \/ \E t \in CacheInstants : tick(t)

CacheSpec == Init /\ [][CacheNext]_vars

HandlerNext ==
    \/ \E h \in Slots, address \in Users, signer \in Users :
          /\ firstIdle(h)
          /\ receive(h, heartbeatRequest(TRUE, address, signer, sourceChainId, 0, 0))
    \/ \E h \in Slots, complete \in BOOLEAN :
          /\ firstIdle(h)
          /\ receive(h, heartbeatRequest(complete, ADDR.randomUser, ADDR.randomUser,
                                         sourceChainId, 0 - 301, 0 - 301))
    \/ \E h \in Slots : verified(h)
    \/ \E h \in Slots, chainReadOk \in BOOLEAN : chainRead(h, chainReadOk)
    \/ onRegistered(checksumSpelling(ADDR.user), inactivityPeriods[ADDR.user])
    \/ \E t \in CacheInstants : tick(t)

\* the ledger after user's register(beneficiary, 31); the relay has started
HandlerInit ==
    /\ now = 1
    /\ owner = ADDR.owner
    /\ watchtower = ADDR.watchtower
    /\ lifiDiamond = ADDR.mockLiFi
    /\ beneficiaries = [u \in Users |->
                           IF u = ADDR.user THEN ADDR.beneficiary ELSE ADDR.zero]
    /\ lastHeartbeat = [u \in Users |-> IF u = ADDR.user THEN now ELSE 0]
    /\ inactivityPeriods = [u \in Users |->
                               IF u = ADDR.user THEN MIN_INACTIVITY_PERIOD + 1 ELSE 0]
    /\ isDead = [u \in Users |-> FALSE]
    /\ isRegistered = [u \in Users |-> u = ADDR.user]
    /\ userDeposits = [u \in Users |-> [t \in Tokens |-> 0]]
    /\ erc20Balance = [t \in Tokens |-> [h \in Holders |-> 0]]
    /\ erc20Allowance = [t \in Tokens |-> [q \in AllowancePairs |-> 0]]
    /\ lastCall = Call("register", ADDR.user, ADDR.user, ADDR.zero,
                       MIN_INACTIVITY_PERIOD + 1, ADDR.beneficiary, << >>)
    /\ vaultDeployed
    /\ relayStarted

HandlerSpec == HandlerInit /\ [][HandlerNext]_vars

(***************************************************************************)
(* The Liquidation Executor (runLiquidationCheck), await by await.  The    *)
(* cron schedule and POST /liquidation/check both call it, whatever calls  *)
(* are already at an await; a call runs in one step to the next await at   *)
(* which it waits for an answer of the node.                               *)
(***************************************************************************)
\* config.supportedTokens, in the configured order
supportedTokens == << ADDR.weth, ADDR.usdc >>

\* the rows a SELECT without ORDER BY returns, in any order
Orderings(keys) ==
    { order \in [1 .. Cardinality(keys) -> keys] :
         \A i, j \in 1 .. Cardinality(keys) : order[i] = order[j] => i = j }

\* getInactiveUsers, also returning the rows exactly at their deadline
inactiveKeysAtDeadline ==
    { k \in DOMAIN store :
         /\ store[k] # NoRecord
         /\ dateNow - store[k].lastSeen >= store[k].inactivityPeriod * 1000 }

\* WHERE ? - last_seen > (inactivity_period * 1000), the parameter being t
inactiveKeysAt(t) ==
    { k \in DOMAIN store :
         /\ store[k] # NoRecord
         /\ t - store[k].lastSeen > store[k].inactivityPeriod * 1000 }

\* the rows getInactiveUsers selects, its parameter being Date.now()
inactiveKeys == inactiveKeysAt(dateNow)

\* HeartbeatStore.getInactiveUsers(), the rows in the given order
getInactiveUsers(order) == [i \in 1 .. Len(order) |-> store[order[i]]]

\* HeartbeatStore.removeUser
removeUser(userAddress) == [store EXCEPT ![toLowerCase(userAddress)] = NoRecord]

\* a LiquidationResult (txHash left out)
LiquidationResult(userAddress, success, error) ==
    [userAddress |-> userAddress, success |-> success, error |-> error]

\* a call of runLiquidationCheck at its first await
Running(inactiveUsers) ==
    [pc |-> "status", inactiveUsers |-> inactiveUsers, i |-> 1, results |-> << >>]

userOf(st) == st.inactiveUsers[st.i].userAddress

\* `for (const user of inactiveUsers)` moves on: the next user's first read,
\* or `return results`
continueUsers(st) ==
    IF st.i < Len(st.inactiveUsers)
    THEN [st EXCEPT !.pc = "status", !.i = @ + 1]
    ELSE [pc |-> "idle", results |-> st.results]

\* removeUserIfAnySuccess, removing the user whatever the outcomes
removeUserAlways(userAddress, anySuccess) == removeUser(userAddress)

\* if (anySuccess) store.removeUser(userAddress)
removeUserIfAnySuccess(userAddress, anySuccess) ==
    IF anySuccess THEN removeUser(userAddress) ELSE store

\* executeLiquidation: `await checkUserTokens` throws, and the outer catch
\* returns the failed result with the error's message.  With
\* LazarusSourceABI as config.ts has it the read of userDeposits is rejected
\* in every call, so checkUserTokens never returns, and the code of
\* executeLiquidation after it (the amounts, the route, simulateContract,
\* writeContract and the wait for the receipt, 108-209) is not run by any
\* call: it is not modelled
executeLiquidation(userAddress, tokenAddress) ==
    LiquidationResult(userAddress, FALSE,
                      "Function \"userDeposits\" not found on ABI.")

\* pushed, leaving the loop at the first token that fails
pushedStoppingAtFailure(loop, result) ==
    [loop EXCEPT !.results = Append(@, result),
                 !.anySuccess = @ \/ result.success,
                 !.t = IF result.success THEN @ + 1 ELSE Len(supportedTokens) + 1]

\* results.push(result); if (result.success) anySuccess = true; and on to
\* the next token
pushed(loop, result) ==
    [loop EXCEPT !.results = Append(@, result),
                 !.anySuccess = @ \/ result.success,
                 !.t = @ + 1]

\* for (const token of config.supportedTokens): from token loop.t on
RECURSIVE tokenLoop(_, _)
tokenLoop(userAddress, loop) ==
    IF loop.t > Len(supportedTokens) THEN loop
    ELSE tokenLoop(userAddress,
                   pushed(loop, executeLiquidation(userAddress,
                                                   supportedTokens[loop.t])))

\* what calls runLiquidationCheck: the hourly schedule, and the admin
\* endpoint, which answers with the results the call returns
Triggers == {"cron.schedule", "POST /liquidation/check"}

\* runLiquidationCheck, called at instant t, up to the first
\* `await checkUserOnChain`
startScan(p, order, trigger, t) ==
    /\ passes[p].pc = "idle"
    /\ order \in Orderings(inactiveKeysAt(t))
    /\ passes' = [passes EXCEPT ![p] =
                     IF order = << >> THEN [pc |-> "idle", results |-> << >>]
                     ELSE Running(getInactiveUsers(order))]
    /\ clock' = t
    /\ lastCall' = Call(trigger, ADDR.zero, ADDR.zero, ADDR.zero, p,
                        ADDR.zero, << >>)
    /\ UNCHANGED <<now, ledgerVars, tokenVars, vaultVars, processEnv, nodeProcess,
                   store,
                   lastRequest, response, inFlight>>

\* statusConfirms, going on whatever the read gave
statusConfirmsUnchecked(readOk, status) == TRUE

\* checkUserOnChain after the checkUserStatus read: the read returned (it
\* throws when the node fails or the call reverts) and
\* const [canLiquidate] = status is true
statusConfirms(readOk, status) == readOk /\ ~status.reverts /\ status.canLiquidate

\* checkUserOnChain: the checkUserStatus read returns or throws
statusRead(p, readOk) ==
    /\ passes[p].pc = "status"
    /\ LET st == passes[p]
           status == checkUserStatus(userOf(st))
           canLiquidate == statusConfirms(readOk, status)
       IN  /\ passes' = [passes EXCEPT ![p] =
                            IF ~canLiquidate THEN continueUsers(st)
                            ELSE [st EXCEPT !.pc = "info"]]
           /\ lastCall' = Call("statusRead", ADDR.zero, userOf(st), ADDR.zero, p,
                               ADDR.zero, << >>)
    /\ UNCHANGED <<now, ledgerVars, tokenVars, vaultVars, processEnv, nodeProcess,
                   clock, store,
                   lastRequest, response, inFlight>>

\* checkUserOnChain after the getUserInfo read:
\* const [registered, beneficiary, , dead] = userInfo; !(!registered || dead)
eligible(readOk, userInfo) == readOk /\ userInfo[1] # 0 /\ userInfo[4] = 0

\* checkUserOnChain: the getUserInfo read returns or throws; for a user it
\* confirms, the loop over the tokens and `if (anySuccess)
\* store.removeUser(userAddress)` follow in the same turn: the promise of
\* the userDeposits read is rejected when readContract is called, and an
\* await of it lets no other callback of the process run in between
infoRead(p, readOk) ==
    /\ passes[p].pc = "info"
    /\ LET st == passes[p]
           userInfo == getUserInfoReturns(userOf(st))
           loop == tokenLoop(userOf(st),
                             [t |-> 1, anySuccess |-> FALSE, results |-> st.results])
       IN  /\ lastCall' = Call("infoRead", ADDR.zero, userOf(st), ADDR.zero, p,
                               ADDR.zero, << >>)
           /\ IF ~eligible(readOk, userInfo)
              THEN /\ passes' = [passes EXCEPT ![p] = continueUsers(st)]
                   /\ store' = store
              ELSE /\ checkUserTokensRejects
                   /\ passes' = [passes EXCEPT ![p] =
                                    continueUsers([st EXCEPT !.results = loop.results])]
                   /\ store' = removeUserIfAnySuccess(userOf(st), loop.anySuccess)
    /\ UNCHANGED <<now, ledgerVars, tokenVars, vaultVars, processEnv, nodeProcess,
                   clock,
                   lastRequest, response, inFlight>>

\* the first call slot that is free
firstFree(p) ==
    passes[p].pc = "idle" /\ \A q \in Passes : q < p => passes[q].pc # "idle"

\* one hour, in milliseconds
hourMs == 3600000

\* cron.schedule('0 * * * *'): the relay's clock reaches the whole hour t
\* and the callback calls runLiquidationCheck, next to the calls that are
\* at an await
cronSchedule(t) ==
    /\ t > clock
    /\ t % hourMs = 0
    /\ \E p \in Passes, order \in Orderings(inactiveKeysAt(t)) :
          /\ firstFree(p)
          /\ startScan(p, order, "cron.schedule", t)

\* app.post('/liquidation/check'): the endpoint calls runLiquidationCheck at
\* once, next to the calls that are at an await
postLiquidationCheck ==
    \E p \in Passes, order \in Orderings(inactiveKeys) :
       /\ firstFree(p)
       /\ startScan(p, order, "POST /liquidation/check", clock)

\* the relay's clock, on a whole hour, when randomUser has sent a heartbeat,
\* one millisecond after user
ScanEpoch == hourMs
\* the whole hours at which randomUser's row is exactly at its deadline, and
\* past it
ScanInstants == {ScanEpoch + defaultInactivityPeriod * 1000,
                 ScanEpoch + defaultInactivityPeriod * 1000 + hourMs}
\* block times at which user alone is past the deadline, and both users are
ScanBlockTimes == {DEAD_MAN_TIMEOUT + 2, DEAD_MAN_TIMEOUT + 3}
\* a cache row as an accepted heartbeat of instant t leaves it
heartbeatRow(address, t, inactivityPeriod) ==
    [userAddress |-> address,
     lastSeen |-> t,
     signature |-> heartbeatBuiltAt(address, t, 1).signature,
     inactivityPeriod |-> inactivityPeriod,
     createdAt |-> t,
     updatedAt |-> t]

\* both users registered, with a period of seven days where the ledger has
\* periods, user at block time 1 and randomUser at 2; the users of `cached`
\* are in the cache by a heartbeat, user's one millisecond before
\* randomUser's; user holds and has approved 100 of each token, randomUser
\* holds nothing
executorStarted(cached) ==
    /\ now = 2
    /\ owner = ADDR.owner
    /\ watchtower = ADDR.watchtower
    /\ lifiDiamond \in Diamonds
    /\ beneficiaries = [u \in Users |-> ADDR.beneficiary]
    /\ lastHeartbeat = [u \in Users |-> IF u = ADDR.user THEN 1 ELSE 2]
    /\ inactivityPeriods = [u \in Users |-> DEAD_MAN_TIMEOUT]
    /\ isDead = [u \in Users |-> FALSE]
    /\ isRegistered = [u \in Users |-> TRUE]
    /\ userDeposits = [u \in Users |-> [t \in Tokens |-> 0]]
    /\ erc20Balance =
          [t \in Tokens |-> [h \in Holders |-> IF h = ADDR.user THEN 100 ELSE 0]]
    /\ erc20Allowance =
          [t \in Tokens |-> [q \in AllowancePairs |->
              IF q = <<ADDR.user, ADDR.lazarusSource>> THEN 100 ELSE 0]]
    /\ lastCall = Call("approve", ADDR.user, ADDR.user, ADDR.usdc, 100,
                       ADDR.lazarusSource, << >>)
    /\ vaultDeployed
    /\ passes = [p \in Passes |-> NotRunning]
    /\ processEnv \in {Production, onTimeoutLedger(Production)}
    /\ nodeProcess = Serving
    /\ clock = ScanEpoch
    /\ store = [a \in Spellings |->
                   IF a \notin cached THEN NoRecord
                   ELSE IF a = ADDR.user
                   THEN heartbeatRow(a, ScanEpoch - 1, defaultInactivityPeriod)
                   ELSE heartbeatRow(a, ScanEpoch, defaultInactivityPeriod)]
    /\ lastRequest = NoRequest
    /\ response = [status |-> 0, error |-> "none"]
    /\ inFlight = [h \in Slots |-> Idle]

\* against either ledger, both users cached
ScanInit ==
    /\ executorStarted(Users)
    /\ lifiDiamond = ADDR.lifiDiamond

\* the schedule fires at both instants, whatever calls are at an await;
\* every await of every call returns or throws; both users come to be past
\* their deadline on the ledger
ScanNext ==
    \/ \E t \in ScanInstants : cronSchedule(t)
    \/ \E p \in Passes, readOk \in BOOLEAN : statusRead(p, readOk)
    \/ \E p \in Passes, readOk \in BOOLEAN : infoRead(p, readOk)
    \/ \E newTime \in ScanBlockTimes : warpTo(newTime)

ScanSpec == ScanInit /\ [][ScanNext]_vars

\* calls that overlap, against the ledger the executor reads; user comes to
\* be past the deadline on the ledger
OverlapInit ==
    /\ executorStarted(Users)
    /\ processEnv = onTimeoutLedger(Production)
    /\ lifiDiamond = ADDR.lifiDiamond

OverlapNext ==
    \/ \E t \in ScanInstants : cronSchedule(t)
    \/ postLiquidationCheck
    \/ \E p \in Passes, readOk \in BOOLEAN : statusRead(p, readOk)
    \/ \E p \in Passes, readOk \in BOOLEAN : infoRead(p, readOk)
    \/ warpTo(DEAD_MAN_TIMEOUT + 2)

OverlapSpec == OverlapInit /\ [][OverlapNext]_vars

(***************************************************************************)
(* Heartbeats next to the calls of the executor: user's heartbeats are     *)
(* received, verified and recorded while calls are at their awaits.  Both  *)
(* users have a record, which no call removes, so no handler reads the     *)
(* ledger for a first heartbeat.                                           *)
(***************************************************************************)
FreshInit ==
    /\ executorStarted(Users)
    /\ processEnv = onTimeoutLedger(Production)
    /\ lifiDiamond = ADDR.lifiDiamond

FreshNext ==
    \/ \E t \in ScanInstants : cronSchedule(t)
    \/ \E p \in Passes, readOk \in BOOLEAN : statusRead(p, readOk)
    \/ \E p \in Passes, readOk \in BOOLEAN : infoRead(p, readOk)
    \/ postHeartbeat(heartbeatBuiltAt(ADDR.user, clock, 1))
    \/ \E h \in Slots : verified(h)
    \/ warpTo(DEAD_MAN_TIMEOUT + 2)

FreshSpec == FreshInit /\ [][FreshNext]_vars

(***************************************************************************)
(* Liveness of the executor against either ledger, with user in the cache: *)
(* a read of the ledger may fail, but not for ever.  Passes keep being     *)
(* started and every await ends.                                           *)
(***************************************************************************)
LiveInit ==
    /\ executorStarted({ADDR.user})
    /\ lifiDiamond = ADDR.lifiDiamond

LiveNext ==
    \/ \E t \in ScanInstants : cronSchedule(t)
    \/ postLiquidationCheck
    \/ \E p \in Passes, readOk \in BOOLEAN : statusRead(p, readOk)
    \/ \E p \in Passes, readOk \in BOOLEAN : infoRead(p, readOk)
    \/ warpTo(DEAD_MAN_TIMEOUT + 2)

\* passes keep being started and block time passes; every await ends, and
\* a read of the ledger does not end in a failure for ever
LiveSpec ==
    /\ LiveInit
    /\ [][LiveNext]_vars
    /\ WF_vars((\E t \in ScanInstants : cronSchedule(t)) \/ postLiquidationCheck)
    /\ WF_vars(warpTo(DEAD_MAN_TIMEOUT + 2))
    /\ WF_vars(\E p \in Passes, readOk \in BOOLEAN : statusRead(p, readOk))
    /\ SF_vars(\E p \in Passes : statusRead(p, TRUE))
    /\ WF_vars(\E p \in Passes, readOk \in BOOLEAN : infoRead(p, readOk))
    /\ SF_vars(\E p \in Passes : infoRead(p, TRUE))

(***************************************************************************)
(* Shutdown.  The SIGTERM and SIGINT handlers close the database and call  *)
(* process.exit(0) in the same turn: no step of the process follows, and   *)
(* whatever was at an await stays where it was.                            *)
(***************************************************************************)
Signals == {"SIGTERM", "SIGINT"}

\* process.on(signal, () => { store.close(); process.exit(0); })
shutdown(signal) ==
    /\ ~nodeProcess.exited
    /\ nodeProcess' = [exited |-> TRUE, db |-> "closed"]
    /\ lastCall' = Call(signal, ADDR.zero, ADDR.zero, ADDR.zero, 0, ADDR.zero, << >>)
    /\ UNCHANGED <<now, ledgerVars, tokenVars, vaultVars, passes, processEnv,
                   clock, store, lastRequest, response, inFlight>>

\* the process runs: heartbeats of user, who has a record, are received,
\* verified and recorded, the schedule and the endpoint start passes and
\* their awaits return or throw, time passes
serves ==
    \/ postHeartbeat(heartbeatBuiltAt(ADDR.user, clock, 1))
    \/ \E h \in Slots : verified(h)
    \/ \E t \in ScanInstants : cronSchedule(t)
    \/ postLiquidationCheck
    \/ \E p \in Passes, readOk \in BOOLEAN : statusRead(p, readOk)
    \/ \E p \in Passes, readOk \in BOOLEAN : infoRead(p, readOk)
    \/ warpTo(DEAD_MAN_TIMEOUT + 2)

ShutdownNext ==
    \/ ~nodeProcess.exited /\ serves
    \/ \E signal \in Signals : shutdown(signal)

ShutdownSpec == LiveInit /\ [][ShutdownNext]_vars

(***************************************************************************)
(* The Calldata Validator on its own: liquidate has read the beneficiary   *)
(* of _user and holds _swapData in calldata; one step runs the length test *)
(* and the search loop on it.  Payloads are filler bytes with the 20 bytes *)
(* of an address written at one offset, or at none.                        *)
(***************************************************************************)
fillerByte == 255

PayloadLengths ==
    {MIN_VALIDATED_LENGTH - 1, MIN_VALIDATED_LENGTH, SEARCH_WINDOW - 1, SEARCH_WINDOW,
     SEARCH_WINDOW + 1, SEARCH_WINDOW + ADDRESS_LENGTH}

\* offsets an address is written at: inside and just after the selector,
\* where a 32-byte word puts it, and around the end of the search window
PayloadOffsets ==
    {0, 1, SELECTOR_LENGTH - 1, SELECTOR_LENGTH, SELECTOR_LENGTH + 1,
     MIN_VALIDATED_LENGTH - ADDRESS_LENGTH, SEARCH_WINDOW - ADDRESS_LENGTH - 1,
     SEARCH_WINDOW - ADDRESS_LENGTH, SEARCH_WINDOW - ADDRESS_LENGTH + 1, SEARCH_WINDOW}

payloadWith(len, offset, a) ==
    [k \in 1..len |-> IF k > offset /\ k <= offset + ADDRESS_LENGTH THEN a
                      ELSE fillerByte]

ValidatorPayloads ==
    { [k \in 1..len |-> fillerByte] : len \in PayloadLengths }
    \cup UNION { { payloadWith(len, offset, a) :
                      offset \in { o \in PayloadOffsets : o + ADDRESS_LENGTH <= len },
                      a \in {ADDR.beneficiary, ADDR.newWatchtower} } :
                  len \in PayloadLengths }

ValidatorInit ==
    /\ now = MIN_INACTIVITY_PERIOD + 2
    /\ owner = ADDR.owner
    /\ watchtower = ADDR.watchtower
    /\ lifiDiamond = ADDR.mockLiFi
    /\ \E b \in {ADDR.beneficiary, ADDR.randomUser} :
          beneficiaries = [u \in Users |-> IF u = ADDR.user THEN b ELSE ADDR.zero]
    /\ lastHeartbeat = [u \in Users |-> IF u = ADDR.user THEN 1 ELSE 0]
    /\ inactivityPeriods =
          [u \in Users |-> IF u = ADDR.user THEN MIN_INACTIVITY_PERIOD ELSE 0]
    /\ isDead = [u \in Users |-> FALSE]
    /\ isRegistered = [u \in Users |-> u = ADDR.user]
    /\ userDeposits = [u \in Users |-> [t \in Tokens |-> 0]]
    /\ erc20Balance =
          [t \in Tokens |-> [h \in Holders |->
              IF h = ADDR.user /\ t = ADDR.weth THEN 150 ELSE 0]]
    /\ erc20Allowance = [t \in Tokens |-> [p \in AllowancePairs |-> 0]]
    /\ \E d \in ValidatorPayloads :
          lastCall = Call("swapData", ADDR.watchtower, ADDR.user, ADDR.weth, 0,
                          ADDR.zero, d)
    /\ vaultDeployed
    /\ relayStarted

\* lines 286-311 for the payload at hand: skipped below 68 bytes, else the
\* search, which ends in InvalidBeneficiary or lets liquidate go on
validateSwapData ==
    /\ lastCall.op = "swapData"
    /\ LET beneficiary == beneficiaries[lastCall.user]
           verdict == IF Len(lastCall.data) < MIN_VALIDATED_LENGTH THEN "notSearched"
                      ELSE IF beneficiaryFound(lastCall.data, beneficiary)
                           THEN "beneficiaryFound"
                           ELSE "InvalidBeneficiary"
       IN  lastCall' = Call(verdict, lastCall.sender, lastCall.user, lastCall.token, 0,
                            beneficiary, lastCall.data)
    /\ UNCHANGED <<now, ledgerVars, tokenVars>>
    /\ UNCHANGED offLedgerVars

ValidatorNext == validateSwapData

ValidatorSpec == ValidatorInit /\ [][ValidatorNext]_vars

(***************************************************************************)
(* Calls of the ledger that revert.  A revert ends the transaction and     *)
(* undoes every write the call made before the failing statement, so the   *)
(* failed call leaves the chain as it was; lastCall records which call     *)
(* failed, with its arguments.                                             *)
(***************************************************************************)
\* a call of op that ends in error; route is what the route target did
\* with the call a liquidate made to it, "none" for a call that made none
failed(op, sender, _user, _token, _swapData, route, error) ==
    /\ error # "none"
    /\ lastCall' = [Call(op, sender, _user, _token, 0, ADDR.zero, _swapData)
                       EXCEPT !.route = route]
    /\ UNCHANGED <<now, ledgerVars, tokenVars>>
    /\ UNCHANGED offLedgerVars

FailedCalls ==
    {"registerFailed", "updateInactivityPeriodFailed", "updateBeneficiaryFailed",
     "pingFailed", "pingForFailed", "depositFundsFailed", "withdrawFundsFailed",
     "liquidateFailed", "setWatchtowerFailed", "setLiFiDiamondFailed",
     "rescueTokensFailed"}

\* every function of the ledger for a user who holds both tokens, and the
\* calls that fail
FailNext ==
    \/ register(ADDR.user, ADDR.beneficiary, MIN_INACTIVITY_PERIOD)
    \/ ping(ADDR.user)
    \/ \E t \in Tokens : approve(ADDR.user, t, 100)
    \/ \E t \in Tokens : depositFunds(ADDR.user, t, 100)
    \/ \E t \in Tokens : withdrawFunds(ADDR.user, t, 100)
    \/ updateInactivityPeriod(ADDR.user, MIN_INACTIVITY_PERIOD + 1)
    \/ updateBeneficiary(ADDR.user, ADDR.randomUser)
    \/ pingFor(ADDR.watchtower, ADDR.user)
    \/ \E t \in Tokens, d \in SwapDataInputs \cup BalancePayloads,
          o \in BridgeOutcomes :
          liquidate(ADDR.watchtower, ADDR.user, t, d, o)
    \/ \E d \in TimeSteps : warp(d)
    \/ \E s \in Users :
          failed("registerFailed", s, s, ADDR.zero, << >>, "none",
                 registerRevert(s, ADDR.beneficiary, MIN_INACTIVITY_PERIOD))
    \/ \E s \in Users :
          failed("updateInactivityPeriodFailed", s, s, ADDR.zero, << >>, "none",
                 updateInactivityPeriodRevert(s, MIN_INACTIVITY_PERIOD + 1))
    \/ \E s \in Users :
          failed("updateBeneficiaryFailed", s, s, ADDR.zero, << >>, "none",
                 updateBeneficiaryRevert(s, ADDR.randomUser))
    \/ \E s \in Users : failed("pingFailed", s, s, ADDR.zero, << >>, "none", pingRevert(s))
    \/ \E s \in {ADDR.watchtower, ADDR.randomUser} :
          failed("pingForFailed", s, ADDR.user, ADDR.zero, << >>, "none",
                 pingForRevert(s, ADDR.user))
    \/ \E t \in Tokens :
          failed("depositFundsFailed", ADDR.user, ADDR.user, t, << >>, "none",
                 depositFundsRevert(ADDR.user, t, 100))
    \/ \E t \in Tokens :
          failed("withdrawFundsFailed", ADDR.user, ADDR.user, t, << >>, "none",
                 withdrawFundsRevert(ADDR.user, t, 100))
    \/ \E s \in {ADDR.watchtower, ADDR.randomUser}, t \in Tokens,
          d \in SwapDataInputs \cup BalancePayloads, o \in BridgeOutcomes :
          /\ o \in routeOutcomes(d)
          /\ failed("liquidateFailed", s, ADDR.user, t, d, o,
                    liquidateRevert(s, ADDR.user, t, d, o))
    \/ failed("setWatchtowerFailed", ADDR.owner, ADDR.zero, ADDR.zero, << >>, "none",
              setWatchtowerRevert(ADDR.owner, ADDR.zero))
    \/ failed("setLiFiDiamondFailed", ADDR.user, ADDR.zero, ADDR.zero, << >>, "none",
              setLiFiDiamondRevert(ADDR.user, ADDR.mockLiFi))
    \/ failed("rescueTokensFailed", ADDR.user, ADDR.zero, ADDR.weth, << >>, "none",
              rescueTokensRevert(ADDR.user, ADDR.weth, ADDR.user, UINT256_MAX))

FailSpec == SweepInit /\ [][FailNext]_vars

(***************************************************************************)
(* Deposits of two users in the same pool: both users are registered,     *)
(* hold both tokens and have approved the ledger for usdc; they approve,  *)
(* deposit and withdraw, let their heartbeat lapse and are liquidated      *)
(* token by token, the route target pulling what it was approved for, or   *)
(* nothing.                                                                *)
(***************************************************************************)
PoolSupply == 200
PoolAmount == PoolSupply \div 2
\* no calldata, and mockBridge for 99 weth to the beneficiary
PoolPayloads == {emptySwapData, buildMockSwapData(ADDR.weth, 99, ADDR.beneficiary, 42161)}

PoolInit ==
    /\ now = 1
    /\ owner = ADDR.owner
    /\ watchtower = ADDR.watchtower
    /\ lifiDiamond \in Diamonds
    /\ beneficiaries = [u \in Users |-> ADDR.beneficiary]
    /\ lastHeartbeat = [u \in Users |-> 1]
    /\ inactivityPeriods = [u \in Users |-> MIN_INACTIVITY_PERIOD]
    /\ isDead = [u \in Users |-> FALSE]
    /\ isRegistered = [u \in Users |-> TRUE]
    /\ userDeposits = [u \in Users |-> [t \in Tokens |-> 0]]
    /\ erc20Balance =
          [t \in Tokens |-> [h \in Holders |->
              IF h = ADDR.user /\ t = ADDR.weth THEN PoolSupply
              ELSE IF h \in Users THEN PoolAmount ELSE 0]]
    /\ erc20Allowance =
          [t \in Tokens |-> [q \in AllowancePairs |->
              IF t = ADDR.usdc /\ q[1] \in Users THEN PoolAmount ELSE 0]]
    /\ lastCall = Call("register", ADDR.randomUser, ADDR.randomUser, ADDR.zero,
                       MIN_INACTIVITY_PERIOD, ADDR.beneficiary, << >>)
    /\ vaultDeployed
    /\ relayStarted

PoolNext ==
    \/ \E s \in Users : approve(s, ADDR.weth, PoolAmount)
    \/ \E s \in Users, t \in Tokens : depositFunds(s, t, PoolAmount)
    \/ \E s \in Users : withdrawFunds(s, ADDR.weth, PoolAmount)
    \/ \E u \in Users, t \in Tokens, d \in PoolPayloads, o \in BridgeOutcomes :
          liquidate(ADDR.watchtower, u, t, d, o)
    \/ \E d \in TimeSteps : warp(d)

PoolSpec == PoolInit /\ [][PoolNext]_vars

(***************************************************************************)
(* Claims.  A step whose new lastCall.op is f is a successful call of f;   *)
(* unprimed variables in an action formula are the state at call time.     *)
(***************************************************************************)
\* the 20 bytes of pattern occur somewhere in data, at any offset
occursIn(pattern, data) ==
    \E i \in 0 .. (Len(data) - Len(pattern)) :
        \A j \in 1 .. Len(pattern) : data[i + j] = pattern[j]

\* C1: a liquidate whose payload, of whatever length, does not contain the
\* stored beneficiary's 20 address bytes never succeeds.
C1_PayloadWithoutBeneficiaryRejected ==
    [][ lastCall'.op = "liquidate"
          => occursIn(AddrBytes(beneficiaries[lastCall'.user]), lastCall'.data) ]_vars

\* C2: liquidate succeeds only for a registered user and only when
\* now > lastHeartbeat[user] + inactivityPeriod[user].
C2_LiquidateOnlyPastDeadline ==
    [][ lastCall'.op = "liquidate"
          => /\ isRegistered[lastCall'.user]
             /\ now > lastHeartbeat[lastCall'.user] + inactivityPeriods[lastCall'.user] ]_vars

\* C2 witness: a registered user holding liquidatable funds stands exactly at
\* the deadline, and the watchtower's liquidate is rejected as NotDeadYet.
C2_Witness ==
    \E u \in Users :
        /\ isRegistered[u]
        /\ now = lastHeartbeat[u] + inactivityPeriods[u]
        /\ amountToTransferOf(u, ADDR.weth) > 0
        /\ liquidateRevert(watchtower, u, ADDR.weth, emptySwapData, "pullsApproved")
              = "NotDeadYet"
        /\ \E v \in Users :
              liquidateRevert(watchtower, v, ADDR.weth, emptySwapData, "pullsApproved")
                 = "NotRegistered"

\* C3: the dead flag never goes back to false, and it goes from false to true
\* only in a successful liquidate of that user.
C3_DeadIsPermanent ==
    [][ \A u \in Users :
          /\ isDead[u] => isDead'[u]
          /\ (~isDead[u] /\ isDead'[u])
                => (lastCall'.op = "liquidate" /\ lastCall'.user = u) ]_vars

\* C3 witness: a user who is already dead is liquidated a second time, for the
\* 50 tokens the first liquidation (of the approved 100, of which MockLiFi
\* pulled 99) left in the wallet; the second route call pulled nothing.
C3_Witness ==
    /\ lastCall.op = "liquidate"
    /\ isDead[lastCall.user]
    /\ erc20Balance[ADDR.weth][lastCall.user] = 0
    /\ userDeposits[lastCall.user][ADDR.weth] = 0
    /\ lastCall.amount = 50
    /\ erc20Balance[ADDR.weth][ADDR.mockLiFi] = 99
    /\ erc20Balance[ADDR.weth][ADDR.lazarusSource] = 50

\* C4: liquidate and pingFor succeed only for the currently authorized
\* watchtower, and only the owner changes which identity is authorized.
C4_OnlyWatchtowerOnlyOwner ==
    [][ /\ lastCall'.op \in {"liquidate", "pingFor"} => lastCall'.sender = watchtower
        /\ watchtower' # watchtower
              => (lastCall'.op = "setWatchtower" /\ lastCall'.sender = owner) ]_vars

\* C4 witness: after the owner has replaced the watchtower, the new identity
\* pings for a user and the old one is rejected.
C4_Witness ==
    /\ lastCall.op = "pingFor"
    /\ lastCall.sender = ADDR.newWatchtower
    /\ watchtower = ADDR.newWatchtower
    /\ pingForRevert(ADDR.watchtower, lastCall.user) = "NotWatchtower"
    /\ liquidateRevert(ADDR.watchtower, lastCall.user, ADDR.weth, emptySwapData,
                       "pullsApproved") = "NotWatchtower"

\* C5 as stated: canLiquidate is false until now > lastHeartbeat + period, and
\* once true for a live user it stays true until liquidate sets dead, whatever
\* else is called in between.
C5_CanLiquidateStaysTrue ==
    [][ \A u \in Users :
          /\ (isRegistered[u] /\ now <= lastHeartbeat[u] + inactivityPeriods[u])
                => ~checkUserStatus(u).canLiquidate
          /\ (checkUserStatus(u).canLiquidate /\ ~isDead[u])
                => (checkUserStatus(u).canLiquidate' \/ isDead'[u]) ]_vars

HeartbeatOps == {"ping", "pingFor", "depositFunds", "withdrawFunds"}

\* C5 amended: canLiquidate is true exactly when the user is registered and
\* now > lastHeartbeat + period; once true it can become false again only by
\* a successful ping, pingFor, depositFunds, withdrawFunds or
\* updateInactivityPeriod of that user, who is then not dead; so it stays true
\* across time advance, updateBeneficiary, liquidate and forever once dead.
C5_CanLiquidateUntilHeartbeat ==
    [][ \A u \in Users :
          /\ checkUserStatus(u).canLiquidate
                <=> (isRegistered[u] /\ now > lastHeartbeat[u] + inactivityPeriods[u])
          /\ (checkUserStatus(u).canLiquidate /\ ~checkUserStatus(u).canLiquidate')
                => /\ lastCall'.op \in HeartbeatOps \cup {"updateInactivityPeriod"}
                   /\ lastCall'.user = u
                   /\ ~isDead[u] ]_vars

\* C5 witness: past the first deadline one user is dead and still reported
\* liquidatable, while the other has pinged at this instant and is not.
C5_Witness ==
    /\ lastCall.op = "ping"
    /\ now > 1 + MIN_INACTIVITY_PERIOD
    /\ lastHeartbeat[lastCall.user] = now
    /\ ~checkUserStatus(lastCall.user).canLiquidate
    /\ \E v \in Users : isDead[v] /\ checkUserStatus(v).canLiquidate

\* C6: a successful ping, pingFor, depositFunds or withdrawFunds sets the
\* user's lastHeartbeat to the time of the call, and no step lowers the
\* lastHeartbeat of a user who is not dead.
C6_HeartbeatIsCallTime ==
    [][ /\ lastCall'.op \in HeartbeatOps => lastHeartbeat'[lastCall'.user] = now
        /\ \A u \in Users : ~isDead[u] => lastHeartbeat'[u] >= lastHeartbeat[u] ]_vars

\* C6 witness: a withdrawal made after time has advanced has moved the
\* heartbeat of a user registered at the start to the later call time.
C6_Witness ==
    /\ lastCall.op = "withdrawFunds"
    /\ now > 1
    /\ lastHeartbeat[lastCall.user] = now
    /\ ~isDead[lastCall.user]

LivenessOps == HeartbeatOps \cup {"updateBeneficiary", "updateInactivityPeriod"}

\* C7: ping, pingFor, depositFunds, withdrawFunds, updateBeneficiary and
\* updateInactivityPeriod succeed only for a user who is registered and not
\* dead.
C7_DeadIsTerminalForLiveness ==
    [][ lastCall'.op \in LivenessOps
          => (isRegistered[lastCall'.user] /\ ~isDead[lastCall'.user]) ]_vars

\* C7 witness: one user is dead and the other unregistered; every liveness
\* operation with otherwise valid arguments is rejected for both.
C7_Witness ==
    \E u, v \in Users :
        /\ isDead[u] /\ ~isRegistered[v]
        /\ userDeposits[u][ADDR.weth] = 0
        /\ pingRevert(u) = "AlreadyDead"
        /\ pingForRevert(watchtower, u) = "AlreadyDead"
        /\ depositFundsRevert(u, ADDR.weth, 100) = "AlreadyDead"
        /\ withdrawFundsRevert(u, ADDR.weth, 100) = "AlreadyDead"
        /\ updateBeneficiaryRevert(u, ADDR.beneficiary) = "AlreadyDead"
        /\ updateInactivityPeriodRevert(u, MIN_INACTIVITY_PERIOD) = "AlreadyDead"
        /\ pingRevert(v) = "NotRegistered"
        /\ pingForRevert(watchtower, v) = "NotRegistered"
        /\ depositFundsRevert(v, ADDR.weth, 100) = "NotRegistered"
        /\ withdrawFundsRevert(v, ADDR.weth, 100) = "NotRegistered"
        /\ updateBeneficiaryRevert(v, ADDR.beneficiary) = "NotRegistered"
        /\ updateInactivityPeriodRevert(v, MIN_INACTIVITY_PERIOD) = "NotRegistered"

\* C8: every registered user has an inactivity period of at least the floor
\* and a beneficiary that is neither the zero address nor the user.
C8_RegisteredRecordValid ==
    \A u \in Users :
        isRegistered[u]
           => /\ inactivityPeriods[u] >= MIN_INACTIVITY_PERIOD
              /\ beneficiaries[u] # ADDR.zero
              /\ beneficiaries[u] # u

\* C8 witness: a user registered with a longer period has lowered it to
\* exactly the floor, and the other has changed beneficiary.
C8_Witness ==
    /\ lastCall.op = "updateInactivityPeriod"
    /\ lastCall.amount = MIN_INACTIVITY_PERIOD
    /\ inactivityPeriods[lastCall.user] = MIN_INACTIVITY_PERIOD
    /\ updateInactivityPeriodRevert(lastCall.user, MIN_INACTIVITY_PERIOD - 1) = "ZeroAmount"
    /\ updateBeneficiaryRevert(lastCall.user, lastCall.user) = "InvalidBeneficiary"
    /\ updateBeneficiaryRevert(lastCall.user, ADDR.zero) = "InvalidBeneficiary"

\* C9: register is rejected exactly when the beneficiary is zero or the
\* caller, the period is below the floor, or the caller is already
\* registered; a successful register stores beneficiary and period and sets
\* lastHeartbeat = now, dead = false, registered = true.
C9_RegisterChecksAndStores ==
    [][ /\ \A s \in Users, b \in BeneficiaryInputs, p \in PeriodInputs :
              (registerRevert(s, b, p) # "none")
                 <=> (b = ADDR.zero \/ b = s \/ p < 30 \/ isRegistered[s])
        /\ lastCall'.op = "register"
              => LET s == lastCall'.sender
                     b == lastCall'.addr
                     p == lastCall'.amount
                 IN  /\ b # ADDR.zero /\ b # s /\ p >= 30 /\ ~isRegistered[s]
                     /\ beneficiaries'[s] = b
                     /\ inactivityPeriods'[s] = p
                     /\ lastHeartbeat'[s] = now
                     /\ ~isDead'[s]
                     /\ isRegistered'[s] ]_vars

\* C9 witness: one user has just registered past the start, while the other
\* is dead and a fresh registration of that one is rejected.
C9_Witness ==
    /\ lastCall.op = "register"
    /\ now > 1
    /\ lastHeartbeat[lastCall.sender] = now
    /\ registerRevert(lastCall.sender, ADDR.zero, 30) = "InvalidBeneficiary"
    /\ registerRevert(lastCall.sender, lastCall.sender, 30) = "InvalidBeneficiary"
    /\ \E v \in Users :
          /\ isDead[v]
          /\ registerRevert(v, ADDR.beneficiary, 29) = "ZeroAmount"
          /\ registerRevert(v, ADDR.beneficiary, 30) = "AlreadyRegistered"

\* C10: a successful liquidate takes min(allowance, balance) + deposit as
\* read at call time: the deposit becomes 0, exactly min(allowance, balance)
\* leaves the wallet and its allowance, the total is positive and is split
\* between the caller's fee and the bridged amount; the off-chain aggregator
\* computes the same total from the same reads.
C10_LiquidateTakesMinPlusDeposit ==
    [][ lastCall'.op = "liquidate"
          => LET u == lastCall'.user
                 t == lastCall'.token
                 w == lastCall'.sender
                 a == Min(erc20Allowance[t][<<u, ADDR.lazarusSource>>], erc20Balance[t][u])
                 d == userDeposits[u][t]
             IN  /\ a + d > 0
                 /\ userDeposits'[u][t] = 0
                 /\ erc20Balance'[t][u] = erc20Balance[t][u] - a
                 /\ erc20Allowance'[t][<<u, ADDR.lazarusSource>>]
                       = erc20Allowance[t][<<u, ADDR.lazarusSource>>] - a
                 /\ (erc20Balance'[t][w] - erc20Balance[t][w]) + lastCall'.amount = a + d
                 /\ amountToLiquidate(erc20Allowance[t][<<u, ADDR.lazarusSource>>],
                                      erc20Balance[t][u], d) = a + d ]_vars

\* C10 witness: a user with 100 deposited and an allowance of 100 over a
\* wallet of 50 has been liquidated for 150: 1 of fee and 149 bridged.
C10_Witness ==
    /\ lastCall.op = "liquidate"
    /\ lastCall.amount = 149
    /\ erc20Balance[ADDR.weth][lastCall.user] = 0
    /\ erc20Allowance[ADDR.weth][<<lastCall.user, ADDR.lazarusSource>>] = 50
    /\ userDeposits[lastCall.user][ADDR.weth] = 0
    /\ erc20Balance[ADDR.weth][lastCall.sender] >= 1

\* the largest amount the fee split is checked for
MaxAmount == 300

\* C11: on a successful liquidate of amount = min(allowance, balance) + deposit,
\* fee = floor(amount * 100 / 10000) is paid to the caller, bridged = amount -
\* fee is what the route target is approved for (and can pull no more), fee +
\* bridged = amount, and the off-chain liquidator computes the same split; the
\* floor and the exact sum hold for every amount up to MaxAmount.
C11_FeeSplitExact ==
    [][ lastCall'.op = "liquidate"
          => LET u == lastCall'.user
                 t == lastCall'.token
                 w == lastCall'.sender
                 amount == Min(erc20Allowance[t][<<u, ADDR.lazarusSource>>],
                               erc20Balance[t][u]) + userDeposits[u][t]
                 paid == erc20Balance'[t][w] - erc20Balance[t][w]
                 pulled == erc20Balance'[t][lifiDiamond] - erc20Balance[t][lifiDiamond]
                 bridged == erc20Allowance'[t][<<ADDR.lazarusSource, lifiDiamond>>] + pulled
                 offChain == amountToLiquidate(
                                 erc20Allowance[t][<<u, ADDR.lazarusSource>>],
                                 erc20Balance[t][u], userDeposits[u][t])
             IN  /\ paid * 10000 <= amount * 100
                 /\ amount * 100 < (paid + 1) * 10000
                 /\ bridged = amount - paid
                 /\ lastCall'.amount = bridged
                 /\ pulled >= 0
                 /\ fee(offChain) = paid
                 /\ amountToSwap(offChain) = bridged
                 /\ \A a \in 0 .. MaxAmount :
                       LET f == watchtowerFeeOf(a)
                       IN  /\ f * 10000 <= a * 100
                           /\ a * 100 < (f + 1) * 10000
                           /\ f + (a - f) = a
                           /\ f >= 0 /\ f <= a ]_vars

\* C11 witness: 100 deposited and no wallet allowance: liquidated for 100, the
\* caller holds the fee of 1 and the route target is approved for 99.
C11_Witness ==
    /\ lastCall.op = "liquidate"
    /\ lastCall.amount = 99
    /\ erc20Balance[ADDR.weth][lastCall.user] = 50
    /\ erc20Allowance[ADDR.weth][<<lastCall.user, ADDR.lazarusSource>>] = 0
    /\ erc20Balance[ADDR.weth][lastCall.sender] = 1
    /\ erc20Allowance[ADDR.weth][<<ADDR.lazarusSource, lifiDiamond>>] = 99
    /\ erc20Balance[ADDR.weth][ADDR.lazarusSource] = 99

\* C12: when the route call fails inside liquidate, the call ends in an
\* error, and the funds it had pulled from the user's wallet stay in the
\* ledger's custody: the ledger holds the wallet part more than before the
\* call, and the wallet that much less.
C12_PulledFundsStayInLedger ==
    [][ lastCall'.op = "liquidateReverted"
          => LET u == lastCall'.user
                 t == lastCall'.token
             IN  /\ erc20Balance'[t][ADDR.lazarusSource]
                       = erc20Balance[t][ADDR.lazarusSource] + allowanceAmountOf(u, t)
                 /\ erc20Balance'[t][u] = erc20Balance[t][u] - allowanceAmountOf(u, t) ]_vars

\* a mockBridge payload that names the user's beneficiary as the receiver
routeFor(u) == buildMockSwapData(ADDR.weth, 99, beneficiaries[u], 42161)

\* C13: for a user already marked dead, a liquidate by the watchtower for a
\* token whose aggregate amount (deposit plus wallet allowance) is not
\* zero, with a payload that names the beneficiary, succeeds; the route
\* target is one that carries the route out, taking what the ledger
\* approved.
C13_DeadUserSweptTokenByToken ==
    \A u \in Users, t \in Tokens :
        (isDead[u] /\ amountToTransferOf(u, t) > 0)
           => liquidateRevert(watchtower, u, t, routeFor(u), "pullsApproved") = "none"

\* C14 as stated: for every user and time checkUserStatus returns
\* canLiquidate = (registered and now > lastHeartbeat + period) and
\* timeRemaining = max(0, lastHeartbeat + period - now); (false, 0) when
\* unregistered.
C14_StatusForEveryUser ==
    \A u \in Users :
        LET r == checkUserStatus(u)
        IN  /\ ~r.reverts
            /\ IF ~isRegistered[u]
               THEN ~r.canLiquidate /\ r.timeRemaining = 0
               ELSE LET deadline == lastHeartbeat[u] + inactivityPeriods[u]
                    IN  /\ r.canLiquidate <=> now > deadline
                        /\ r.timeRemaining = IF deadline > now THEN deadline - now ELSE 0

\* C14 within range: the same, for every user whose lastHeartbeat + period
\* fits a uint256; for the others the call reverts.
C14_StatusWhenDeadlineFits ==
    \A u \in Users :
        LET r == checkUserStatus(u)
            fits == inactivityPeriods[u] <= UINT256_MAX - lastHeartbeat[u]
        IN  /\ r.reverts <=> (isRegistered[u] /\ ~fits)
            /\ ~isRegistered[u] => (~r.canLiquidate /\ r.timeRemaining = 0)
            /\ (isRegistered[u] /\ fits)
                  => LET deadline == lastHeartbeat[u] + inactivityPeriods[u]
                     IN  /\ r.canLiquidate <=> now > deadline
                         /\ r.timeRemaining
                               = IF deadline > now THEN deadline - now ELSE 0

\* C14 witness: one user registered at t0 = 1 for 7 days is read at
\* t0 + 7d + 1s and can be liquidated, the other is unregistered.
C14_Witness ==
    /\ now = 1 + DEAD_MAN_TIMEOUT + 1
    /\ \E u, v \in Users :
          /\ isRegistered[u] /\ lastHeartbeat[u] = 1
          /\ inactivityPeriods[u] = DEAD_MAN_TIMEOUT
          /\ checkUserStatus(u) = [reverts |-> FALSE, canLiquidate |-> TRUE,
                                   timeRemaining |-> 0]
          /\ ~isRegistered[v]
          /\ checkUserStatus(v) = [reverts |-> FALSE, canLiquidate |-> FALSE,
                                   timeRemaining |-> 0]

heldBalance == erc20Balance[ADDR.usdc][ADDR.lazarusVault]

RECURSIVE sumOfBalances(_)
sumOfBalances(S) ==
    IF S = {} THEN 0
    ELSE LET b == CHOOSE x \in S : TRUE
         IN  balances[b] + sumOfBalances(S \ {b})

\* C15: in every reachable vault state the tracked total equals the sum of
\* all beneficiaries' balances and is at most the usdc the vault holds.
C15_TrackedIsSumAndCovered ==
    /\ totalTrackedBalance = sumOfBalances(DOMAIN balances)
    /\ totalTrackedBalance <= heldBalance
    /\ \A b \in DOMAIN balances : balances[b] >= 0

\* C15 witness: after deposits, an authorized credit and a partial claim,
\* both beneficiaries are credited and the vault holds more than it tracks.
C15_Witness ==
    /\ lastCall.op = "claimAmount"
    /\ balances[ADDR.beneficiary] > 0
    /\ balances[ADDR.randomUser] > 0
    /\ heldBalance > totalTrackedBalance
    /\ authorizedDepositors[ADDR.depositor]

\* C16: depositAuthorized succeeds only for an authorized depositor and only
\* when the vault already holds totalTracked + amount; it then credits the
\* beneficiary and the tracked total by amount and moves no token, so the
\* tracked total never exceeds what the vault holds; an unauthorized caller
\* and a credit beyond the held balance are rejected.
C16_AuthorizedCreditIsCovered ==
    [][ /\ \A s \in VaultDepositors, b \in VaultBeneficiaries, a \in {1, 2} :
              /\ ~authorizedDepositors[s]
                    => depositAuthorizedRevert(s, b, a) = "NotAuthorizedDepositor"
              /\ (authorizedDepositors[s] /\ heldBalance < totalTrackedBalance + a)
                    => depositAuthorizedRevert(s, b, a) = "InsufficientBalance"
              /\ (authorizedDepositors[s] /\ heldBalance >= totalTrackedBalance + a)
                    => depositAuthorizedRevert(s, b, a) = "none"
        /\ lastCall'.op = "depositAuthorized"
              => LET b == lastCall'.user
                     a == lastCall'.amount
                 IN  /\ authorizedDepositors[lastCall'.sender]
                     /\ a > 0
                     /\ heldBalance >= totalTrackedBalance + a
                     /\ balances' = [balances EXCEPT ![b] = balances[b] + a]
                     /\ totalTrackedBalance' = totalTrackedBalance + a
                     /\ erc20Balance' = erc20Balance
                     /\ totalTrackedBalance' <= heldBalance' ]_vars

\* C16 witness: an authorized credit has used up everything that arrived:
\* one more token of credit is rejected, as is a caller never authorized.
C16_Witness ==
    /\ lastCall.op = "depositAuthorized"
    /\ lastCall.amount = 2
    /\ totalTrackedBalance = heldBalance
    /\ depositAuthorizedRevert(ADDR.depositor, ADDR.beneficiary, 1) = "InsufficientBalance"
    /\ depositAuthorizedRevert(ADDR.randomUser, ADDR.beneficiary, 1)
          = "NotAuthorizedDepositor"

\* C17: claim debits the caller's whole credited balance and transfers it to
\* the caller, claimAmount(a) debits and transfers exactly a; they are
\* rejected when the amount is zero or exceeds the caller's credited
\* balance; no claim changes another beneficiary's balance.
C17_ClaimDebitsOnlyCaller ==
    [][ /\ \A s \in VaultBeneficiaries :
              /\ balances[s] = 0 <=> claimRevert(s) = "InsufficientBalance"
              /\ claimAmountRevert(s, 0) = "ZeroAmount"
              /\ claimAmountRevert(s, balances[s] + 1) = "InsufficientBalance"
        /\ lastCall'.op \in {"claim", "claimAmount"}
              => LET s == lastCall'.sender
                     a == lastCall'.amount
                 IN  /\ a > 0
                     /\ a <= balances[s]
                     /\ lastCall'.op = "claim" => a = balances[s]
                     /\ balances'[s] = balances[s] - a
                     /\ \A b \in VaultBeneficiaries \ {s} : balances'[b] = balances[b]
                     /\ totalTrackedBalance' = totalTrackedBalance - a
                     /\ erc20Balance'[ADDR.usdc][s] = erc20Balance[ADDR.usdc][s] + a
                     /\ heldBalance' = heldBalance - a ]_vars

\* C17 witness: a beneficiary credited 2 has claimed 1 and keeps 1, while the
\* other beneficiary's credit of 2 is untouched.
C17_Witness ==
    /\ lastCall.op = "claimAmount"
    /\ lastCall.amount = 1
    /\ balances[lastCall.sender] = 1
    /\ erc20Balance[ADDR.usdc][lastCall.sender] = 1
    /\ \E b \in VaultBeneficiaries \ {lastCall.sender} : balances[b] = 2
    /\ claimAmountRevert(lastCall.sender, 2) = "InsufficientBalance"

\* C18: rescueTokens never leaves the vault holding less usdc than the
\* tracked total and changes neither the tracked total nor any balance; for
\* usdc it transfers out exactly held - tracked when positive, else nothing.
C18_RescueKeepsTracked ==
    [][ lastCall'.op = "vaultRescueTokens"
          => /\ balances' = balances
             /\ totalTrackedBalance' = totalTrackedBalance
             /\ heldBalance' >= totalTrackedBalance'
             /\ lastCall'.token = ADDR.usdc
                   => /\ heldBalance - heldBalance'
                            = IF heldBalance > totalTrackedBalance
                              THEN heldBalance - totalTrackedBalance ELSE 0
                      /\ heldBalance > totalTrackedBalance
                            => erc20Balance'[ADDR.usdc][lastCall'.addr]
                                  = erc20Balance[ADDR.usdc][lastCall'.addr]
                                       + (heldBalance - totalTrackedBalance)
             /\ lastCall'.token # ADDR.usdc => heldBalance' = heldBalance ]_vars

\* C18 witness: with 2 tracked and 3 held, the owner has rescued usdc: 1 went
\* out and the vault holds exactly the tracked 2.
C18_Witness ==
    /\ lastCall.op = "vaultRescueTokens"
    /\ lastCall.token = ADDR.usdc
    /\ lastCall.amount = 1
    /\ totalTrackedBalance = 2
    /\ heldBalance = 2
    /\ erc20Balance[ADDR.usdc][ADDR.owner] >= 1

\* C19: depositFunds(token, a) raises the caller's recorded deposit for the
\* token by exactly a and withdrawFunds(token, a) lowers it by exactly a,
\* paying a to the caller; no other record changes; withdrawFunds is
\* rejected when a exceeds the caller's recorded deposit, whatever the
\* ledger holds for other users, and no recorded deposit is ever negative.
C19_DepositAndWithdrawExact ==
    [][ /\ \A s \in Users, t \in Tokens :
              /\ userDeposits[s][t] >= 0
              /\ \A a \in CustodyAmounts \cup {CustodySupply + 1} :
                    (isRegistered[s] /\ ~isDead[s] /\ a > userDeposits[s][t])
                       => withdrawFundsRevert(s, t, a) = "InsufficientDeposit"
        /\ lastCall'.op = "depositFunds"
              => LET s == lastCall'.sender
                     t == lastCall'.token
                     a == lastCall'.amount
                 IN  /\ a > 0
                     /\ userDeposits' =
                           [userDeposits EXCEPT ![s][t] = userDeposits[s][t] + a]
                     /\ erc20Balance'[t][s] = erc20Balance[t][s] - a
                     /\ erc20Balance'[t][ADDR.lazarusSource]
                           = erc20Balance[t][ADDR.lazarusSource] + a
        /\ lastCall'.op = "withdrawFunds"
              => LET s == lastCall'.sender
                     t == lastCall'.token
                     a == lastCall'.amount
                 IN  /\ a > 0
                     /\ a <= userDeposits[s][t]
                     /\ userDeposits' =
                           [userDeposits EXCEPT ![s][t] = userDeposits[s][t] - a]
                     /\ erc20Balance'[t][s] = erc20Balance[t][s] + a
                     /\ erc20Balance'[t][ADDR.lazarusSource]
                           = erc20Balance[t][ADDR.lazarusSource] - a ]_vars

\* C19 witness: a user who deposited 2 has withdrawn 1 while the ledger
\* also holds another user's deposit of 3; withdrawing 2 more is rejected
\* even though the ledger holds enough tokens to pay it.
C19_Witness ==
    /\ lastCall.op = "withdrawFunds"
    /\ lastCall.amount = 1
    /\ userDeposits[lastCall.sender][ADDR.weth] = 1
    /\ \E u \in Users \ {lastCall.sender} : userDeposits[u][ADDR.weth] = 3
    /\ balanceOf(ADDR.weth, ADDR.lazarusSource) = 4
    /\ withdrawFundsRevert(lastCall.sender, ADDR.weth, 2) = "InsufficientDeposit"

\* the distance in seconds between the relay's clock and a timestamp
secondsApart(timestamp) ==
    LET nowSeconds == clock \div 1000
    IN  IF timestamp > nowSeconds THEN timestamp - nowSeconds
        ELSE nowSeconds - timestamp

\* the signature was made by the claimed address, over the message sent,
\* under the domain of the Ledger's chain
signedByClaimedAddress(req) ==
    /\ req.signature.signer = req.address
    /\ req.signature.message = req.message
    /\ req.signature.domain.chainId = sourceChainId

HandlerOps == {"receive", "verified", "chainRead"}

\* the request of the handler whose step has just been taken
handledRequest ==
    LET h == lastCall'.amount
    IN  IF inFlight[h] # Idle THEN inFlight[h].req
        ELSE IF inFlight'[h] # Idle THEN inFlight'[h].req
        ELSE lastRequest'

\* the step has ended its handler with this status
answeredWith(status) ==
    /\ inFlight'[lastCall'.amount] = Idle
    /\ lastRequest' = handledRequest
    /\ response'.status = status

\* C20: a well-formed heartbeat whose timestamp is more than 300 s from the
\* relay's clock when it is checked, or whose signature is not the claimed
\* address's over the message under the Ledger chain's domain, is answered
\* 401 and leaves every cache record as it was; one at most 300 s away
\* (exactly 300 s past or future included) with a good signature goes on to
\* be accepted, and the step that accepts it upserts only the sender's
\* record, with the instant of the write and the request's signature.
C20_StaleOrForgedHeartbeatRejected ==
    [][ lastCall'.op \in HandlerOps
          => LET h == lastCall'.amount
                 req == handledRequest
                 key == toLowerCase(req.address)
             IN  /\ lastCall'.op = "receive"
                       => /\ store' = store
                          /\ (req.complete /\ isAddressFormat(req.address) /\ req.parses)
                                => IF secondsApart(req.message.timestamp) > 300
                                   THEN answeredWith(401)
                                   ELSE inFlight'[h].pc = "verifying"
                 /\ lastCall'.op = "verified"
                       => IF signedByClaimedAddress(req)
                          THEN (answeredWith(200) \/ inFlight'[h].pc = "reading")
                          ELSE (answeredWith(401) /\ store' = store)
                 /\ lastCall'.op = "chainRead" => answeredWith(200)
                 /\ (store' # store \/ (response'.status = 200 /\ inFlight'[h] = Idle))
                       => /\ signedByClaimedAddress(req)
                          /\ req.message.timestamp - inFlight[h].now \in (0 - 300) .. 300
                          /\ answeredWith(200)
                          /\ store'[key].lastSeen = clock
                          /\ store'[key].signature = req.signature
                          /\ \A a \in DOMAIN store \ {key} : store'[a] = store[a] ]_vars

\* C20 witness: a correctly signed heartbeat 301 s in the past has just been
\* rejected on arrival, and the sender's record is intact: it was written
\* when the verification of a heartbeat that had arrived within the window
\* returned, more than 300 s after that heartbeat's timestamp; the other
\* user's record came from a heartbeat exactly 300 s in the future.
C20_Witness ==
    /\ lastCall.op = "receive"
    /\ response.status = 401
    /\ signedByClaimedAddress(lastRequest)
    /\ lastRequest.message.timestamp = (clock \div 1000) - 301
    /\ LET mine == store[lastRequest.address]
       IN  /\ mine # NoRecord
           /\ (mine.lastSeen \div 1000) - mine.signature.message.timestamp > 300
    /\ \E a \in Users \ {lastRequest.address} :
          /\ store[a] # NoRecord
          /\ store[a].signature.message.timestamp = (store[a].lastSeen \div 1000) + 300

\* the request repeats the heartbeat whose signature the sender's record holds
replaysAccepted(req) ==
    /\ store[req.address] # NoRecord
    /\ store[req.address].signature = req.signature

\* C21: a heartbeat the relay has already accepted is rejected when it is
\* submitted again, and the sender's lastSeen does not move.
C21_ReplayRejected ==
    [][ (lastCall'.op \in HandlerOps /\ inFlight[lastCall'.amount] # Idle
            /\ replaysAccepted(inFlight[lastCall'.amount].req))
          => /\ inFlight'[lastCall'.amount] = Idle
             /\ response'.status = 401
             /\ store' = store ]_vars

\* the rows of the cache kept for one address, whatever its spelling
rowsOf(address) ==
    {k \in DOMAIN store : store[k] # NoRecord /\ toLowerCase(k) = address}

\* the rows a handler for a request may write: the record as it is, or the
\* upsert made from the request, the clock and the user's own period
ownOutcomes(req) ==
    LET key == toLowerCase(req.address)
        periods == {inactivityPeriods[key], defaultInactivityPeriod}
                      \cup {store[k].inactivityPeriod :
                               k \in {k \in {key} : store[k] # NoRecord}}
    IN  {store[key]} \cup
        {[userAddress |-> key, lastSeen |-> clock, signature |-> req.signature,
          inactivityPeriod |-> q,
          createdAt |-> IF store[key] # NoRecord THEN store[key].createdAt ELSE clock,
          updatedAt |-> clock] : q \in periods}

\* C23: a step of a heartbeat handler for address A, whether the request is
\* accepted or rejected and whatever other handlers are in flight, leaves
\* the record of every other address and every other handler as it was, and
\* what it writes to A's record is made from A's request, A's record, A's
\* period and the clock alone.
C23_HandlersTouchOwnRowOnly ==
    [][ lastCall'.op \in HandlerOps
          => LET h == lastCall'.amount
                 key == toLowerCase(lastCall'.user)
             IN  /\ \A k \in DOMAIN store \ {key} : store'[k] = store[k]
                 /\ \A g \in Slots \ {h} : inFlight'[g] = inFlight[g]
                 /\ store'[key] # store[key]
                       => /\ inFlight[h] # Idle
                          /\ store'[key] \in ownOutcomes(inFlight[h].req) ]_vars

\* C23 witness: a handler for one user has just written that user's record
\* while a handler for the other user, whose record exists, is still
\* awaiting its verification.
C23_Witness ==
    /\ lastCall.op \in {"verified", "chainRead"}
    /\ response.status = 200
    /\ store[toLowerCase(lastCall.user)] # NoRecord
    /\ store[toLowerCase(lastCall.user)].lastSeen = clock
    /\ \E g \in Slots :
          /\ inFlight[g].pc = "verifying"
          /\ toLowerCase(inFlight[g].req.address) # toLowerCase(lastCall.user)
          /\ store[toLowerCase(inFlight[g].req.address)] # NoRecord
          /\ store[toLowerCase(inFlight[g].req.address)].lastSeen < clock

\* C22, for handlers that overlap: an accepted heartbeat keeps the
\* inactivityPeriod of the record that exists when it is written.
C22_PeriodCarriedForward ==
    [][ (lastCall'.op \in {"verified", "chainRead"}
            /\ store'[toLowerCase(lastCall'.user)] # store[toLowerCase(lastCall'.user)]
            /\ store[toLowerCase(lastCall'.user)] # NoRecord)
          => store'[toLowerCase(lastCall'.user)].inactivityPeriod
                = store[toLowerCase(lastCall'.user)].inactivityPeriod ]_vars

\* call p runs the token loop of its current user in this step
finishesUser(p) ==
    /\ passes[p].pc = "info"
    /\ Len(passes'[p].results) > Len(passes[p].results)

\* the results a call holds for the user it has just finished: the last
\* Len(supportedTokens) of its list
resultsOfLastUser(results) ==
    SubSeq(results, Len(results) - Len(supportedTokens) + 1, Len(results))

anySettled(results) == \E k \in 1 .. Len(results) : results[k].success

inRuns(st) ==
    LET n == Len(supportedTokens)
    IN  /\ Len(st.results) % n = 0
        /\ \A k \in 1 .. Len(st.results) :
              st.results[k].userAddress
                 = st.results[((k - 1) \div n) * n + 1].userAddress
        /\ \A k, j \in 1 .. Len(st.results) :
              st.results[k].userAddress = st.results[j].userAddress
                 => (k - 1) \div n = (j - 1) \div n

C27_SingleFlight ==
    Cardinality({p \in Passes : passes[p].pc # "idle"}) <= 1

\* a cache row is past its deadline at instant t
pastDeadlineAt(row, t) == t - row.lastSeen > row.inactivityPeriod * 1000

aggregateAmount(u, t) ==
    amountToLiquidate(erc20Allowance[t][<<u, ADDR.lazarusSource>>],
                      erc20Balance[t][u], userDeposits[u][t])

\* the user is past the deadline in the cache and on the ledger, and the
\* aggregate amount of the token is not zero
owed(u, t) ==
    /\ store[u] # NoRecord
    /\ pastDeadlineAt(store[u], clock)
    /\ checkUserStatus(u).canLiquidate
    /\ aggregateAmount(u, t) > 0

\* C30: every (user, token) whose user is past the deadline in the cache
\* and on the ledger and whose aggregate amount is not zero is eventually
\* settled, also when its attempt failed in a pass in which another token
\* of the user settled.
C30_EventuallySettled ==
    \A u \in Users, t \in Tokens : owed(u, t) ~> (aggregateAmount(u, t) = 0)

\* C31: when the cache store has been closed by a shutdown signal, no
\* heartbeat request and no scan pass is left unfinished.
C31_DrainedBeforeClose ==
    nodeProcess.db = "closed"
       => /\ \A h \in Slots : inFlight[h] = Idle
          /\ \A p \in Passes : passes[p].pc = "idle"

(***************************************************************************)
(* C32: after any rescueTokens call the ledger still holds, of the rescued *)
(* token, at least the sum of all users' recorded deposits of that token.  *)
(***************************************************************************)
RECURSIVE sumOfDeposits(_, _, _)
sumOfDeposits(deposits, S, _token) ==
    IF S = {} THEN 0
    ELSE LET u == CHOOSE x \in S : TRUE
         IN  deposits[u][_token] + sumOfDeposits(deposits, S \ {u}, _token)

C32_RescueLeavesDeposits ==
    [][ lastCall'.op = "rescueTokens"
           => erc20Balance'[lastCall'.token][ADDR.lazarusSource]
                 >= sumOfDeposits(userDeposits', Users, lastCall'.token) ]_vars

(***************************************************************************)
(* C33: for a payload of at least 68 bytes the validator answers found     *)
(* exactly when the beneficiary's 20 bytes stand at some offset i with     *)
(* 4 <= i and i + 20 <= min(length, 200); an occurrence that starts in the *)
(* selector or runs past byte 200 does not count.                          *)
(***************************************************************************)
standsAt(data, i, a) == \A j \in 0 .. 19 : data[i + j + 1] = a

occursInWindow(data, a) ==
    \E i \in 0 .. Len(data) :
       /\ 4 <= i
       /\ i + 20 <= (IF Len(data) < 200 THEN Len(data) ELSE 200)
       /\ standsAt(data, i, a)

C33_FoundIffInWindow ==
    [][ (lastCall.op = "swapData" /\ Len(lastCall.data) >= 68)
           => /\ lastCall'.op \in {"beneficiaryFound", "InvalidBeneficiary"}
              /\ lastCall'.op = "beneficiaryFound"
                    <=> occursInWindow(lastCall.data, beneficiaries[lastCall.user]) ]_vars

\* the beneficiary stands only at offset 180, ending at byte 200: found
C33_Witness ==
    /\ lastCall.op = "beneficiaryFound"
    /\ Len(lastCall.data) > 200
    /\ ~ \E i \in 0 .. 179 : standsAt(lastCall.data, i, lastCall.addr)
    /\ standsAt(lastCall.data, 180, lastCall.addr)

(***************************************************************************)
(* C35: a ledger call that fails leaves the whole ledger state, and the    *)
(* tokens, as they were.  In particular a call of liquidate, whatever it   *)
(* ends with, that finds the aggregate amount zero, or whose call to the   *)
(* route target fails, leaves the dead flag as it was, the deposit         *)
(* recorded, no tokens pulled from the wallet and no fee paid.             *)
(***************************************************************************)
C35_FailedCallChangesNothing ==
    [][ /\ lastCall'.op \in FailedCalls \cup {"liquidateReverted"}
              => UNCHANGED <<now, ledgerVars, tokenVars>>
        /\ lastCall'.op \in {"liquidate", "liquidateFailed", "liquidateReverted"}
              => LET u == lastCall'.user
                     t == lastCall'.token
                     zeroAmount == amountToTransferOf(u, t) = 0
                     routeCallFails ==
                        /\ amountToTransferOf(u, t) > 0
                        /\ routeCallRevert(u, t, lastCall'.data, lastCall'.route)
                              # "none"
                 IN  (zeroAmount \/ routeCallFails)
                        => /\ isDead'[u] = isDead[u]
                           /\ userDeposits'[u][t] = userDeposits[u][t]
                           /\ erc20Balance'[t][u] = balanceOf(t, u)
                           /\ erc20Balance'[t][lastCall'.sender]
                                 = balanceOf(t, lastCall'.sender)
                           /\ erc20Balance'[t][ADDR.lazarusSource]
                                 = balanceOf(t, ADDR.lazarusSource)
                           /\ erc20Allowance'[t][<<u, ADDR.lazarusSource>>]
                                 = allowanceOf(t, u, ADDR.lazarusSource) ]_vars

\* C35 witness: a liquidate of a user past the deadline has failed at the
\* zero-amount check, which comes after the dead flag is set: the user is
\* not dead
C35_Witness ==
    /\ lastCall.op = "liquidateFailed"
    /\ lastCall.sender = watchtower
    /\ isRegistered[lastCall.user]
    /\ ~notDeadYet(lastCall.user)
    /\ amountToTransferOf(lastCall.user, lastCall.token) = 0
    /\ liquidateRevert(lastCall.sender, lastCall.user, lastCall.token, lastCall.data,
                       lastCall.route) = "InsufficientAllowance"
    /\ ~isDead[lastCall.user]

\* a liquidate has failed at the route call with a deposit at stake
C35_WitnessRouteCall ==
    /\ lastCall.op = "liquidateFailed"
    /\ lastCall.route = "reverts"
    /\ liquidateRevert(lastCall.sender, lastCall.user, lastCall.token, lastCall.data,
                       "reverts") = "BridgeCallFailed"
    /\ userDeposits[lastCall.user][lastCall.token] > 0
    /\ ~isDead[lastCall.user]

(***************************************************************************)
(* C36: once dead[user] is true the user stays dead, the user's            *)
(* beneficiary, inactivityPeriod and lastHeartbeat never change again,     *)
(* checkStatus(user).canLiquidate is true in every later state, and a      *)
(* deposit of the user changes only by being zeroed by a liquidate of that *)
(* user and token.                                                         *)
(***************************************************************************)
C36_DeadRecordIsFrozen ==
    /\ [](\A u \in Users :
             isDead[u] => /\ ~checkUserStatus(u).reverts
                          /\ checkUserStatus(u).canLiquidate)
    /\ [][ \A u \in Users :
             isDead[u]
                => /\ isDead'[u]
                   /\ beneficiaries'[u] = beneficiaries[u]
                   /\ inactivityPeriods'[u] = inactivityPeriods[u]
                   /\ lastHeartbeat'[u] = lastHeartbeat[u]
                   /\ \A t \in Tokens :
                         userDeposits'[u][t] # userDeposits[u][t]
                            => /\ userDeposits'[u][t] = 0
                               /\ lastCall'.op = "liquidate"
                               /\ lastCall'.user = u
                               /\ lastCall'.token = t ]_vars

\* C36 witness: user is dead after the liquidate of one token, still holds
\* a deposit of the other, and time has moved on since
C36_Witness ==
    /\ isDead[ADDR.user]
    /\ userDeposits[ADDR.user][ADDR.usdc] > 0
    /\ userDeposits[ADDR.user][ADDR.weth] = 0
    /\ lastCall.op = "warp"
    /\ checkUserStatus(ADDR.user).canLiquidate

(***************************************************************************)
(* C37: liquidate(user, token, payload) changes no other user's deposit    *)
(* and no deposit of the user for another token, and moves out of the      *)
(* ledger at most fee + bridged of that token, the route target being      *)
(* approved for exactly bridged; so after any sequence of depositFunds,    *)
(* withdrawFunds and liquidate the ledger holds, of every token, at least  *)
(* the sum of the users' recorded deposits.                                *)
(***************************************************************************)
C37_LiquidateTakesOnlyItsOwn ==
    /\ [](\A t \in Tokens :
             balanceOf(t, ADDR.lazarusSource) >= sumOfDeposits(userDeposits, Users, t))
    /\ [][ lastCall'.op = "liquidate"
             => LET u == lastCall'.user
                    t == lastCall'.token
                    amountToTransfer == amountToTransferOf(u, t)
                    watchtowerFee == watchtowerFeeOf(amountToTransfer)
                    bridged == amountToTransfer - watchtowerFee
                    toRoute == erc20Balance'[t][lifiDiamond] - balanceOf(t, lifiDiamond)
                IN  /\ \A v \in Users, s \in Tokens :
                          <<v, s>> # <<u, t>> => userDeposits'[v][s] = userDeposits[v][s]
                    /\ erc20Balance'[t][lastCall'.sender]
                          = balanceOf(t, lastCall'.sender) + watchtowerFee
                    /\ toRoute \in 0 .. bridged
                    /\ erc20Allowance'[t][<<ADDR.lazarusSource, lifiDiamond>>]
                          = bridged - toRoute
                    /\ erc20Balance'[t][ADDR.lazarusSource]
                          = balanceOf(t, ADDR.lazarusSource) + allowanceAmountOf(u, t)
                               - watchtowerFee - toRoute
                    /\ erc20Balance'[t][ADDR.lazarusSource]
                          >= balanceOf(t, ADDR.lazarusSource) - userDeposits[u][t]
                    /\ \A s \in Tokens \ {t} :
                          LET taken == erc20Balance'[s][lifiDiamond]
                                          - balanceOf(s, lifiDiamond)
                          IN  /\ taken \in 0 .. allowanceOf(s, ADDR.lazarusSource,
                                                            lifiDiamond)
                              /\ erc20Balance'[s] =
                                    moved(erc20Balance, s, ADDR.lazarusSource,
                                          lifiDiamond, taken)[s]
                              /\ taken <= balanceOf(s, ADDR.lazarusSource)
                                            - sumOfDeposits(userDeposits, Users, s) ]_vars

\* C37 witness: user has been liquidated for a token, deposit and wallet
\* part together, the route target has pulled what it was approved for, and
\* randomUser's deposit of the same token is recorded and covered
C37_Witness ==
    /\ lastCall.op = "liquidate"
    /\ lastCall.user = ADDR.user
    /\ lastCall.amount = 2 * PoolAmount - watchtowerFeeOf(2 * PoolAmount)
    /\ balanceOf(lastCall.token, lifiDiamond) >= lastCall.amount
    /\ userDeposits[ADDR.user][lastCall.token] = 0
    /\ userDeposits[ADDR.randomUser][lastCall.token] = PoolAmount
    /\ balanceOf(lastCall.token, ADDR.lazarusSource) = PoolAmount

(***************************************************************************)
(* C38: updateBeneficiary changes only the caller's beneficiary and        *)
(* updateInactivityPeriod only the caller's inactivityPeriod: the caller's *)
(* lastHeartbeat, dead flag and deposits, every other user's record, the   *)
(* roles and the tokens stay as they were, so a change of period moves     *)
(* the caller's deadline by the difference of the periods and nothing      *)
(* else.                                                                   *)
(***************************************************************************)
deadlineOf(heartbeats, periods, u) == heartbeats[u] + periods[u]

C38_UpdatesChangeOneField ==
    [][ lastCall'.op \in {"updateBeneficiary", "updateInactivityPeriod"}
          => LET s == lastCall'.sender
             IN  /\ lastHeartbeat' = lastHeartbeat
                 /\ isDead' = isDead
                 /\ isRegistered' = isRegistered
                 /\ userDeposits' = userDeposits
                 /\ UNCHANGED <<now, owner, watchtower, lifiDiamond, tokenVars>>
                 /\ \A v \in Users \ {s} :
                       /\ beneficiaries'[v] = beneficiaries[v]
                       /\ inactivityPeriods'[v] = inactivityPeriods[v]
                 /\ lastCall'.op = "updateBeneficiary"
                       => /\ beneficiaries'[s] = lastCall'.addr
                          /\ inactivityPeriods'[s] = inactivityPeriods[s]
                 /\ lastCall'.op = "updateInactivityPeriod"
                       => /\ inactivityPeriods'[s] = lastCall'.amount
                          /\ beneficiaries'[s] = beneficiaries[s]
                          /\ deadlineOf(lastHeartbeat', inactivityPeriods', s)
                                - deadlineOf(lastHeartbeat, inactivityPeriods, s)
                                = lastCall'.amount - inactivityPeriods[s] ]_vars

\* C38 witness: a user with a deposit, whose last heartbeat lies in the
\* past, has just changed the period to another value
C38_Witness ==
    /\ lastCall.op = "updateInactivityPeriod"
    /\ lastCall.amount = MIN_INACTIVITY_PERIOD + 1
    /\ inactivityPeriods[lastCall.sender] = MIN_INACTIVITY_PERIOD + 1
    /\ lastHeartbeat[lastCall.sender] < now
    /\ userDeposits[lastCall.sender][ADDR.weth] > 0

(***************************************************************************)
(* C39: handling InactivityPeriodUpdated for a tracked user changes only   *)
(* the inactivityPeriod of that user's cache record, lastSeen and          *)
(* signature staying as they were; for an untracked user it creates no     *)
(* record; and a Registered signal never overwrites an existing record.    *)
(***************************************************************************)
C39_PeriodSignalKeepsLastSeen ==
    [][ /\ lastCall'.op = "onInactivityPeriodUpdated"
           => \A k \in DOMAIN store :
                 IF store[k] = NoRecord THEN store'[k] = NoRecord
                 ELSE /\ store'[k] # NoRecord
                      /\ store'[k].lastSeen = store[k].lastSeen
                      /\ store'[k].signature = store[k].signature
                      /\ k # toLowerCase(lastCall'.user)
                            => store'[k] = store[k]
        /\ lastCall'.op = "onRegistered"
           => \A k \in DOMAIN store : store[k] # NoRecord => store'[k] = store[k] ]_vars

(***************************************************************************)
(* C40: whatever heartbeats arrive while a scan pass runs, no record that  *)
(* is fresh at that moment (now - lastSeen <= inactivityPeriod * 1000) is  *)
(* deleted, and a user whose record is fresh is not liquidated: the user   *)
(* is not marked dead and keeps wallet, allowance and deposit.  A          *)
(* heartbeat accepted after the candidates were selected is not lost.      *)
(***************************************************************************)
fresh(row) == row # NoRecord /\ ~pastDeadlineAt(row, dateNow)

=============================================================================
